---- MODULE Spec2Model ----
(***************************************************************************)
(* A model of jimrobinson/httpclient: the nonce counter (counter.go), the  *)
(* authorization cache (authcache.go), the spillable body spool            *)
(* (proxy_read_closer.go), the session facade (session.go) and the         *)
(* authenticated request driver (Client.AuthDo).                           *)
(*                                                                         *)
(* Each component has its own specification (SpecCounter, SpecAuth,        *)
(* SpecSpool, SpecDup, SpecAuthDo) over the shared variables; the          *)
(* variables of the components a specification does not exercise keep      *)
(* their initial values.                                                   *)
(***************************************************************************)
EXTENDS Integers, Sequences, FiniteSets, TLC

VARIABLES
    \* ---- NonceCounter (counter.go) and session.Counter (session.go)
    ncM,        \* NonceCounter.m: the set of nonces that index the list
    ncLL,       \* NonceCounter.ll: items <<k, n>>, most recently used first
    ncCap,      \* NonceCounter.cap
    mutex,      \* session.RWMutex: 0 when free, else the thread holding Lock
    cpc,        \* per thread: position inside session.Counter
    cnonce,     \* per thread: the nonce argument of the call in progress
    cn,         \* per thread: the local n of session.Counter
    cret,       \* per thread: the string returned by the last finished call
    issueLog,   \* history: one record per NonceCounter.Next call, in lock order
    kth,        \* history: per nonce, Next calls since it was last inserted
    epoch,      \* history: per nonce, how often it has been inserted
    \* ---- AuthCache (authcache.go)
    Domain,     \* AuthCache.Domain: host -> AuthPaths, <<>> for an absent host
    getRes,     \* the outcome of the last AuthCache.Get call
    lastSet,    \* history: the arguments of the AuthCache.Set calls so far
    \* ---- MemFileReadCloser and readCloser (proxy_read_closer.go)
    prc,        \* per spool: the MemFileReadCloser fields limit, buf, fh, used
    clone,      \* per spool: the readCloser its ReadCloser() call returned
    files,      \* the temporary files ever created: name -> [data, linked]
    faults,     \* number of file operations that have failed so far
    res,        \* the outcome of the last spool or reader operation
    offered,    \* history, per spool: number of bytes handed to Write
    written,    \* history, per spool: the bytes Write reported as written
    got,        \* history, per spool: the bytes read from its reader
    eof,        \* history, per spool: the reader has reported io.EOF
    lateWrite,  \* history, per spool: Write was called after ReadCloser
    rcCalls,    \* history, per spool: number of ReadCloser() calls
    \* ---- session.Duplicate (session.go)
    dup,        \* the Duplicate call: position, n, loop indices, results
    src,        \* the stream rc handed to Duplicate
    \* ---- Client.AuthDo, the credential store and the builder
    creds,      \* OrderedCredentials.v of the session's credentials
    ad,         \* the AuthDo call: position, request, challenges, results
    prev,       \* history: the URL of the last finished AuthDo, and whether
                \* it ended by a Basic retry that seeded the cache
    adCalls,    \* history: number of AuthDo calls so far
    \* ---- Client.Do: the caller, its goroutine, the timer
    do,         \* the Do call: position of caller and goroutine, timer,
                \* transport result, named results, returned values
    doCalls,    \* history: number of Do calls so far
    leaked,     \* goroutines of earlier Do calls that never finished: they
                \* run the transport or block on a channel nobody reads
    \* ---- the credential store on its own
    cr,         \* OrderedCredentials.v, and the last call made on a Credential
                \* or on the store: its arguments and its result
    \* ---- the session's sync.RWMutex and the callers of its methods
    rw,         \* the lock: its writer (0: none) and its set of readers
    sess,       \* per thread: the session method it runs and its position
    dirty,      \* per store of the session: number of threads in the middle
                \* of modifying it
    \* ---- the session's cache of digest credential hashes
    md5cred,    \* session.md5cred: protection-space key -> H(A1)
    dc,         \* the last call on the cache: arguments, map before, result
    \* ---- parseChallenge (the parser of WWW-Authenticate values)
    parse,      \* parseChallenge: the challenges parsed so far, err, and whether it returned
    fed,        \* history: the items NextItem has delivered to parseChallenge
    \* ---- the lexer of WWW-Authenticate values (lexauth.go)
    lex,        \* the lexer run of one WWW-Authenticate value: input, start and position of the pending bytes, items emitted, position in emitWWWAuthenticate
    \* ---- Challenge.Digest on a session
    md5sess,    \* session.md5sess: host -> session hash, <<>> for an absent host
    bd          \* the last Challenge.Digest call: its arguments, what it used and what it returned

counterVars == <<ncM, ncLL, ncCap, mutex, cpc, cnonce, cn, cret, issueLog, kth, epoch>>

authVars == <<Domain, getRes, lastSet>>

spoolVars == <<prc, clone, files, faults, res, offered, written, got, eof, lateWrite, rcCalls>>

dupVars == <<dup, src>>

authDoVars == <<creds, ad, prev, adCalls>>

doVars == <<do, doCalls, leaked>>
credVars == <<cr>>
lockVars == <<rw, sess, dirty>>
digestVars == <<md5cred, dc>>
parseVars == <<parse, fed>>
lexVars == <<lex>>
buildVars == <<md5sess, bd>>

vars == <<counterVars, authVars, spoolVars, dupVars, authDoVars, doVars, credVars, lockVars, digestVars, parseVars, lexVars, buildVars>>

otherThanCounter == <<authVars, spoolVars, dupVars, authDoVars, doVars, credVars, lockVars, digestVars, parseVars, lexVars, buildVars>>
otherThanAuth == <<counterVars, spoolVars, dupVars, authDoVars, doVars, credVars, lockVars, digestVars, parseVars, lexVars, buildVars>>
otherThanSpool == <<counterVars, authVars, dupVars, authDoVars, doVars, credVars, lockVars, digestVars, parseVars, lexVars, buildVars>>
otherThanDup == <<counterVars, authVars, authDoVars, doVars, credVars, lockVars, digestVars, parseVars, lexVars, buildVars>>
otherThanAuthDo == <<counterVars, spoolVars, dupVars, doVars, credVars, lockVars, digestVars, parseVars, lexVars, buildVars>>
otherThanDo == <<counterVars, authVars, spoolVars, dupVars, authDoVars, credVars, lockVars, digestVars, parseVars, lexVars, buildVars>>
otherThanCred == <<counterVars, authVars, spoolVars, dupVars, authDoVars, doVars, lockVars, digestVars, parseVars, lexVars, buildVars>>
otherThanLock == <<counterVars, authVars, spoolVars, dupVars, authDoVars, doVars, credVars, digestVars, parseVars, lexVars, buildVars>>
otherThanDigest == <<counterVars, authVars, spoolVars, dupVars, authDoVars, doVars, credVars, lockVars, parseVars, lexVars, buildVars>>
otherThanParse == <<counterVars, authVars, spoolVars, dupVars, authDoVars, doVars, credVars, lockVars, digestVars, lexVars, buildVars>>
\* the lexer and the parser run together
otherThanLex == <<counterVars, authVars, spoolVars, dupVars, authDoVars, doVars, credVars, lockVars, digestVars, buildVars>>
otherThanBuild == <<counterVars, authVars, spoolVars, dupVars, authDoVars, doVars, credVars, lockVars, digestVars, parseVars, lexVars>>

\* ------------------------------------------------------------------ bounds

\* largest capacity argument handed to NewSession
MaxCapArg == 2
\* number of threads sharing one session
NumThreads == 2
\* total number of session.Counter calls explored
MaxCalls == 4
\* longest path handed to AuthCache.Set
MaxPathLen == 4
\* number of entries the authorization cache is filled with
MaxEntries == 2
\* largest spill limit handed to NewMemFileReadCloser
MaxLimit == 2
\* longest slice handed to one Write or asked of one Read
MaxChunk == 2
\* total number of bytes handed to the Writes of one spool
MaxTotal == 3
\* number of file operations that may fail in one behaviour
MaxFaults == 1
\* number of ReadCloser() calls made on one spool
MaxReadClosers == 2
\* largest number of clones asked of Duplicate
MaxClones == 2
\* number of challenges in the WWW-Authenticate headers of one response
MaxChallenges == 2
\* number of AuthDo calls made on one session
MaxAuthDo == 2
\* number of Client.Do calls
MaxDoCalls == 3
\* largest Client.Timeout (0: no timeout)
MaxTimeout == 1
\* number of credentials in a store
MaxCreds == 3
\* length of a credential's domain; host names are up to two bytes longer
MaxDomLen == 2
MaxDigestDomain == 2
\* number of items one lexer run delivers to parseChallenge
MaxItems == 4
\* number of fragments a WWW-Authenticate value is put together from
MaxFragments == 4
\* number of Challenge.Digest calls made on one session
MaxBuilds == 3

Nonces == {"n1", "n2", "n3"}
Threads == 1..NumThreads
NoNonce == "none"

\* ------------------------------------------------------- generic helpers

RECURSIVE Pow(_, _)
Pow(b, e) == IF e = 0 THEN 1 ELSE b * Pow(b, e - 1)

HexDigits == <<"0", "1", "2", "3", "4", "5", "6", "7", "8", "9", "a", "b", "c", "d", "e", "f">>

\* fmt.Sprintf("%08x", n) for 0 <= n < 16^8: eight lowercase hex digits
Sprintf08x(n) == [i \in 1..8 |-> HexDigits[((n \div Pow(16, 8 - i)) % 16) + 1]]

\* the index of the first element of s satisfying key k, 0 when there is none
RECURSIVE IndexOfKey(_, _, _)
IndexOfKey(s, k, i) ==
    IF i > Len(s) THEN 0
    ELSE IF s[i].k = k THEN i
    ELSE IndexOfKey(s, k, i + 1)

RemoveAt(s, i) == [j \in 1..(Len(s) - 1) |-> IF j < i THEN s[j] ELSE s[j + 1]]

\* ----------------------------------------------------------- NonceCounter

\* NewNonceCounter: a capacity below 1 is clamped to 1
NewNonceCounterCap(cap) == IF cap < 1 THEN 1 ELSE cap

\* mutant of MoveToFront: a hit leaves the recency list as it is
MoveToFrontNot(ll, i) == ll

\* list.MoveToFront(p) for the element at index i
MoveToFront(ll, i) == <<ll[i]>> \o RemoveAt(ll, i)

\* the value Next stores back into the list element on a hit: v is a copy of
\* p.Value (type item, a struct held by value in the interface), so the
\* element keeps its old count
HitStored(old) == old

\* NonceCounter.Next: the new <<m, ll>> and the returned int
NextHit(ll, nonce) ==
    LET i == IndexOfKey(ll, nonce, 1)
        moved == MoveToFront(ll, i)
        v == [k |-> moved[1].k, n |-> moved[1].n + 1]
    IN [ll |-> [moved EXCEPT ![1] = [k |-> v.k, n |-> HitStored(moved[1].n)]],
        ret |-> v.n]

\* mutant of AtCapacity: evict only once the capacity is exceeded
OverCapacity(m, cap) == Cardinality(m) > cap

\* "if len(nc.m) == nc.cap"
AtCapacity(m, cap) == Cardinality(m) = cap

NextMiss(m, ll, cap, nonce) ==
    LET full == AtCapacity(m, cap)
        back == ll[Len(ll)]
        ll1 == IF full THEN SubSeq(ll, 1, Len(ll) - 1) ELSE ll
        m1 == IF full THEN m \ {back.k} ELSE m
    IN [m |-> m1 \cup {nonce},
        ll |-> <<[k |-> nonce, n |-> 1]>> \o ll1,
        ret |-> 1,
        evicted |-> IF full THEN back.k ELSE NoNonce]

NonceCounterNext(m, ll, cap, nonce) ==
    IF nonce \in m
    THEN LET h == NextHit(ll, nonce)
         IN [m |-> m, ll |-> h.ll, ret |-> h.ret, evicted |-> NoNonce]
    ELSE NextMiss(m, ll, cap, nonce)

\* ------------------------------------------------------- session.Counter

\* NewSession(credentials, nonceCap, dir, limit) with nonceCap = cap
NewCounter(cap) ==
    /\ ncM = {}
    /\ ncLL = <<>>
    /\ ncCap = NewNonceCounterCap(cap)
    /\ mutex = 0
    /\ cpc = [t \in Threads |-> "idle"]
    /\ cnonce = [t \in Threads |-> NoNonce]
    /\ cn = [t \in Threads |-> 0]
    /\ cret = [t \in Threads |-> <<>>]
    /\ issueLog = <<>>
    /\ kth = [x \in Nonces |-> 0]
    /\ epoch = [x \in Nonces |-> 0]

\* ------------------------------------------------------------- AuthCache

\* strings are sequences of one-character strings; Ord is the byte value
Ord(c) == CASE c = "/" -> 47 [] c = "a" -> 97 [] c = "b" -> 98
            [] c = "." -> 46 [] c = "1" -> 49 [] c = "2" -> 50
            [] c = "A" -> 65 [] c = "B" -> 66 [] c = "H" -> 72 [] c = "h" -> 104
            [] OTHER -> 0

\* Go's string comparison a < b: bytewise lexicographic
RECURSIVE StrLess(_, _)
StrLess(a, b) ==
    IF b = <<>> THEN FALSE
    ELSE IF a = <<>> THEN TRUE
    ELSE IF Ord(Head(a)) < Ord(Head(b)) THEN TRUE
    ELSE IF Ord(Head(a)) > Ord(Head(b)) THEN FALSE
    ELSE StrLess(Tail(a), Tail(b))

\* strings.Count(s, c) for a one-byte separator c
Count(s, c) == Cardinality({i \in DOMAIN s : s[i] = c})

\* strings.HasPrefix(s, prefix)
HasPrefix(s, prefix) ==
    /\ Len(prefix) =< Len(s)
    /\ SubSeq(s, 1, Len(prefix)) = prefix

Root == <<"/">>

\* header values are sequences of tokens; the empty string is the empty sequence
NoAuth == <<>>

\* AuthPath.Matches indexes ap.Path[n-1] with n = len(ap.Path): for an empty
\* cached path and a different request path the index is -1 and the call panics
MatchesPanics(ap, path) ==
    /\ ap.Path /= path
    /\ HasPrefix(path, ap.Path)
    /\ Len(ap.Path) = 0

\* AuthPath.Matches (where it does not panic)
Matches(ap, path) ==
    IF ap.Path = path THEN TRUE
    ELSE IF HasPrefix(path, ap.Path)
         THEN LET n == Len(ap.Path)
              IN ap.Path[n] = "/" \/ path[n + 1] = "/"
         ELSE FALSE

\* AuthPaths.Less(i, j) on the elements x = p[i], y = p[j]
Less(x, y) ==
    IF x.Path = Root /\ y.Path /= Root THEN FALSE
    ELSE IF x.Path /= Root /\ y.Path = Root THEN TRUE
    ELSE LET a == Count(x.Path, "/")
             b == Count(y.Path, "/")
         IN IF a > b THEN TRUE
            ELSE IF a < b THEN FALSE
            ELSE StrLess(x.Path, y.Path)

\* sort.Sort(pairs): Less is a strict total order on entries with distinct
\* paths, so the sorted sequence does not depend on the sorting algorithm
RECURSIVE InsertSorted(_, _)
InsertSorted(sorted, x) ==
    IF sorted = <<>> THEN <<x>>
    ELSE IF Less(x, Head(sorted)) THEN <<x>> \o sorted
    ELSE <<Head(sorted)>> \o InsertSorted(Tail(sorted), x)

\* mutant of SortAuthPaths: the appended entry stays at the end
SortAuthPathsNot(pairs) == pairs

RECURSIVE SortAuthPaths(_)
SortAuthPaths(pairs) ==
    IF pairs = <<>> THEN <<>>
    ELSE InsertSorted(SortAuthPaths(SubSeq(pairs, 1, Len(pairs) - 1)), pairs[Len(pairs)])

\* the first index of pairs whose Path equals path, 0 when there is none
RECURSIVE IndexOfPath(_, _, _)
IndexOfPath(pairs, path, i) ==
    IF i > Len(pairs) THEN 0
    ELSE IF pairs[i].Path = path THEN i
    ELSE IndexOfPath(pairs, path, i + 1)

\* "for _, v := range pairs { if v.Path == uri.Path { v.Auth = auth; return } }":
\* v is a copy of the slice element, the assignment does not reach the slice
RangeAssignAuth(pairs, i, auth) == pairs

\* AuthCache.Set(uri, auth): the new AuthPaths of uri.Host
AuthCacheSet(pairs, path, auth) ==
    LET i == IndexOfPath(pairs, path, 1)
    IN IF i /= 0
       THEN RangeAssignAuth(pairs, i, auth)
       ELSE SortAuthPaths(Append(pairs, [Path |-> path, Auth |-> auth]))

\* AuthCache.Get(uri): the walk over the host's paths from index i on
RECURSIVE GetWalk(_, _, _)
GetWalk(paths, path, i) ==
    IF i > Len(paths) THEN [auth |-> NoAuth, panic |-> FALSE]
    ELSE IF MatchesPanics(paths[i], path) THEN [auth |-> NoAuth, panic |-> TRUE]
    ELSE IF Matches(paths[i], path) THEN [auth |-> paths[i].Auth, panic |-> FALSE]
    ELSE GetWalk(paths, path, i + 1)

AuthCacheGet(dom, host, path) == GetWalk(dom[host], path, 1)

Hosts == {"h1", "h2"}
Auths == {<<"A1">>, <<"A2">>}
PathChars == {"/", "a"}

SeqsUpTo(S, n) == UNION {[1..k -> S] : k \in 0..n}

\* a URL path: empty, or rooted at "/" and without empty segments
IsUrlPath(p) ==
    \/ p = <<>>
    \/ /\ p[1] = "/"
       /\ \A i \in 1..(Len(p) - 1) : ~(p[i] = "/" /\ p[i + 1] = "/")

\* the paths handed to Set, and the (longer) request paths handed to Get
SetPaths == {p \in SeqsUpTo(PathChars, MaxPathLen) : IsUrlPath(p)}
GetPaths == {p \in SeqsUpTo(PathChars, MaxPathLen + 1) : IsUrlPath(p)}

NoGet == [host |-> "", path |-> <<>>, auth |-> NoAuth, panic |-> FALSE, done |-> FALSE]

\* NewAuthCache()
NewAuth ==
    /\ Domain = [h \in Hosts |-> <<>>]
    /\ getRes = NoGet
    /\ lastSet = [h \in Hosts |-> [p \in {} |-> NoAuth]]

NumEntries == Len(Domain["h1"]) + Len(Domain["h2"])

\* a call c.Set(uri, auth) with uri.Host = host, uri.Path = path
Set(host, path, auth) ==
    /\ \/ NumEntries < MaxEntries
       \/ IndexOfPath(Domain[host], path, 1) /= 0
    /\ Domain' = [Domain EXCEPT ![host] = AuthCacheSet(Domain[host], path, auth)]
    /\ lastSet' = [lastSet EXCEPT ![host] =
                     [p \in (DOMAIN lastSet[host]) \cup {path} |->
                         IF p = path THEN auth ELSE lastSet[host][p]]]
    /\ getRes' = NoGet
    /\ UNCHANGED otherThanAuth

\* a call c.Get(uri) with uri.Host = host, uri.Path = path
Get(host, path) ==
    /\ LET r == AuthCacheGet(Domain, host, path)
       IN getRes' = [host |-> host, path |-> path, auth |-> r.auth,
                     panic |-> r.panic, done |-> TRUE]
    /\ UNCHANGED <<Domain, lastSet>>
    /\ UNCHANGED otherThanAuth

\* ------------------------------------------------- MemFileReadCloser

Spools == 1..MaxClones

\* the test stream of TestMemFileReadCloser, b[i] = byte(i % 127): the k bytes
\* at offset off
Chunk(off, k) == [j \in 1..k |-> (off + j - 1) % 127]

NilFh == [name |-> 0, open |-> FALSE]
NilReader == [live |-> FALSE, fhName |-> 0, fhOpen |-> FALSE, pos |-> 0]

\* the ways one file operation can fail: ioutil.TempFile, (*os.File).Write,
\* (*os.File).Close on the write handle, os.Open.  os.Remove of a file the
\* program created, and reads and closes of a read handle, are taken to succeed.
FaultKinds == {"none", "tempfile", "write", "close", "open"}

\* NewMemFileReadCloser(dir, limit)
NewMemFileReadCloser(limit) == [limit |-> limit, buf |-> <<>>, fh |-> NilFh, used |-> FALSE]

\* ioutil.TempFile: a new, empty file under a name not used before
CreateTemp(fl) == Append(fl, [data |-> <<>>, linked |-> TRUE])

\* (*os.File).Write on an open handle of file name
FileAppend(fl, name, data) == [fl EXCEPT ![name].data = @ \o data]

\* mutant of RemoveFile: the file is left in place
RemoveFileNot(fl, name) == fl

\* os.Remove(name)
RemoveFile(fl, name) == [fl EXCEPT ![name].linked = FALSE]

\* mutant of StaysInMemory: the spool already spills when the buffer reaches the limit
StaysInMemoryBelowLimit(limit, buflen) == limit < 0 \/ buflen < limit

\* the early return of Write after buf.Write: "w.limit < 0 || w.buf.Len() <= w.limit"
StaysInMemory(limit, buflen) == limit < 0 \/ buflen =< limit

\* mutant of DumpBytes: the buffered prefix is not flushed to the new file
DumpBytesNothing(buf) == <<>>

\* the bytes Write hands to the new temporary file: w.buf.Bytes()
DumpBytes(buf) == buf

Min(a, b) == IF a < b THEN a ELSE b

\* a failing file write of data stores fewer than len(data) bytes: at most k
PartialLen(data, k) == IF Len(data) = 0 THEN 0 ELSE Min(k, Len(data) - 1)

\* MemFileReadCloser.Write(p); fk is the file operation that fails in this
\* call ("none": none), k the number of bytes a failing file write still stores
MemFileWrite(sp, fl, p, fk, k) ==
    IF sp.fh.name /= 0
    THEN \* return w.fh.Write(p)
         IF ~sp.fh.open
         THEN [sp |-> sp, files |-> fl, n |-> 0, err |-> TRUE, faulted |-> FALSE]
         ELSE IF fk = "write"
         THEN [sp |-> sp,
               files |-> FileAppend(fl, sp.fh.name, SubSeq(p, 1, PartialLen(p, k))),
               n |-> PartialLen(p, k), err |-> TRUE, faulted |-> TRUE]
         ELSE [sp |-> sp, files |-> FileAppend(fl, sp.fh.name, p),
               n |-> Len(p), err |-> FALSE, faulted |-> FALSE]
    ELSE LET buf1 == sp.buf \o p
             name == Len(fl) + 1
         IN IF StaysInMemory(sp.limit, Len(buf1))
            THEN [sp |-> [sp EXCEPT !.buf = buf1], files |-> fl,
                  n |-> Len(p), err |-> FALSE, faulted |-> FALSE]
            ELSE IF fk = "tempfile"
            THEN [sp |-> [sp EXCEPT !.buf = buf1, !.fh = NilFh], files |-> fl,
                  n |-> Len(p), err |-> TRUE, faulted |-> TRUE]
            ELSE IF fk = "write"
            THEN \* the dump fails: close the handle, remove the file, fh = nil
                 [sp |-> [sp EXCEPT !.buf = buf1, !.fh = NilFh],
                  files |-> RemoveFile(
                      FileAppend(CreateTemp(fl), name,
                          SubSeq(DumpBytes(buf1), 1, PartialLen(DumpBytes(buf1), k))), name),
                  n |-> Len(p), err |-> TRUE, faulted |-> TRUE]
            ELSE [sp |-> [sp EXCEPT !.buf = <<>>, !.fh = [name |-> name, open |-> TRUE]],
                  files |-> FileAppend(CreateTemp(fl), name, DumpBytes(buf1)),
                  n |-> Len(p), err |-> FALSE, faulted |-> FALSE]

\* MemFileReadCloser.Close()
MemFileClose(sp, fk) ==
    IF sp.fh.name = 0
    THEN [sp |-> sp, err |-> FALSE, faulted |-> FALSE]
    ELSE IF ~sp.fh.open
    THEN \* (*os.File).Close on a closed file reports os.ErrClosed
         [sp |-> sp, err |-> TRUE, faulted |-> FALSE]
    ELSE [sp |-> [sp EXCEPT !.fh.open = FALSE], err |-> fk = "close", faulted |-> fk = "close"]

\* mutant of MarkUsed: the flag is not raised
MarkUsedNot(used) == used

\* "w.used = true" on the first ReadCloser() call
MarkUsed(used) == TRUE

\* MemFileReadCloser.ReadCloser(): rc.live is FALSE for a nil reader
MemFileReadCloserOf(sp, fl, fk) ==
    IF sp.used
    THEN [sp |-> sp, rc |-> NilReader, err |-> TRUE, faulted |-> FALSE]
    ELSE LET sp1 == [sp EXCEPT !.used = MarkUsed(sp.used)]
         IN IF sp.fh.name = 0
            THEN [sp |-> sp1, rc |-> [NilReader EXCEPT !.live = TRUE],
                  err |-> FALSE, faulted |-> FALSE]
            ELSE IF ~fl[sp.fh.name].linked \/ fk = "open"
            THEN \* os.Open fails: fh stays nil, rc is returned beside the error
                 [sp |-> sp1, rc |-> [NilReader EXCEPT !.live = TRUE],
                  err |-> TRUE, faulted |-> fk = "open" /\ fl[sp.fh.name].linked]
            ELSE [sp |-> sp1,
                  rc |-> [live |-> TRUE, fhName |-> sp.fh.name, fhOpen |-> TRUE, pos |-> 0],
                  err |-> FALSE, faulted |-> FALSE]

\* readCloser.Read(p) with len(p) = k > 0: from the file handle if there is
\* one, else from the buffer shared with the spool
ReaderRead(rc, sp, fl, k) ==
    IF rc.fhName /= 0
    THEN IF ~rc.fhOpen
         THEN [rc |-> rc, sp |-> sp, data |-> <<>>, eof |-> FALSE, err |-> TRUE]
         ELSE LET data == fl[rc.fhName].data
                  n == Min(k, Len(data) - rc.pos)
              IN IF n = 0
                 THEN [rc |-> rc, sp |-> sp, data |-> <<>>, eof |-> TRUE, err |-> FALSE]
                 ELSE [rc |-> [rc EXCEPT !.pos = rc.pos + n], sp |-> sp,
                       data |-> SubSeq(data, rc.pos + 1, rc.pos + n),
                       eof |-> FALSE, err |-> FALSE]
    ELSE LET n == Min(k, Len(sp.buf))
         IN IF n = 0
            THEN [rc |-> rc, sp |-> sp, data |-> <<>>, eof |-> TRUE, err |-> FALSE]
            ELSE [rc |-> rc, sp |-> [sp EXCEPT !.buf = SubSeq(sp.buf, n + 1, Len(sp.buf))],
                  data |-> SubSeq(sp.buf, 1, n), eof |-> FALSE, err |-> FALSE]

\* readCloser.Close()
ReaderClose(rc, fl) ==
    IF rc.fhName /= 0
    THEN LET e1 == ~rc.fhOpen
             e2 == ~fl[rc.fhName].linked
         IN [rc |-> [rc EXCEPT !.fhOpen = FALSE], files |-> RemoveFile(fl, rc.fhName),
             err |-> e1 \/ e2]
    ELSE [rc |-> rc, files |-> fl, err |-> FALSE]

NoRes == [op |-> "none", i |-> 0, n |-> 0, err |-> FALSE, rcNil |-> FALSE, touched |-> FALSE]

\* session.NewProxyReadCloser() for every spool, with session.rcLimit = limit
NewSpools(limit) ==
    /\ prc = [i \in Spools |-> NewMemFileReadCloser(limit)]
    /\ clone = [i \in Spools |-> NilReader]
    /\ files = <<>>
    /\ faults = 0
    /\ res = NoRes
    /\ offered = [i \in Spools |-> 0]
    /\ written = [i \in Spools |-> <<>>]
    /\ got = [i \in Spools |-> <<>>]
    /\ eof = [i \in Spools |-> FALSE]
    /\ lateWrite = [i \in Spools |-> FALSE]
    /\ rcCalls = [i \in Spools |-> 0]

\* a call prc[i].Write(p) with the next len bytes of the stream
Write(i, len, fk, k) ==
    /\ offered[i] + len =< MaxTotal
    /\ LET p == Chunk(offered[i], len)
           r == MemFileWrite(prc[i], files, p, fk, k)
       IN /\ (fk /= "none") = r.faulted
          /\ fk /= "write" => k = 0
          /\ r.faulted => faults < MaxFaults
          /\ prc' = [prc EXCEPT ![i] = r.sp]
          /\ files' = r.files
          /\ faults' = IF r.faulted THEN faults + 1 ELSE faults
          /\ written' = [written EXCEPT ![i] = @ \o SubSeq(p, 1, r.n)]
          /\ res' = [op |-> "Write", i |-> i, n |-> r.n, err |-> r.err,
                     rcNil |-> FALSE, touched |-> files' /= files]
    /\ offered' = [offered EXCEPT ![i] = @ + len]
    /\ lateWrite' = [lateWrite EXCEPT ![i] = @ \/ rcCalls[i] > 0]
    /\ UNCHANGED <<clone, got, eof, rcCalls>>
    /\ UNCHANGED otherThanSpool

\* a call prc[i].Close()
Close(i, fk) ==
    /\ LET r == MemFileClose(prc[i], fk)
       IN /\ (fk /= "none") = r.faulted
          /\ r.faulted => faults < MaxFaults
          /\ prc' = [prc EXCEPT ![i] = r.sp]
          /\ faults' = IF r.faulted THEN faults + 1 ELSE faults
          /\ res' = [op |-> "Close", i |-> i, n |-> 0, err |-> r.err,
                     rcNil |-> FALSE, touched |-> FALSE]
    /\ UNCHANGED <<clone, files, offered, written, got, eof, lateWrite, rcCalls>>
    /\ UNCHANGED otherThanSpool

\* a call prc[i].ReadCloser()
ReadCloser(i, fk) ==
    /\ rcCalls[i] < MaxReadClosers
    /\ LET r == MemFileReadCloserOf(prc[i], files, fk)
       IN /\ (fk /= "none") = r.faulted
          /\ r.faulted => faults < MaxFaults
          /\ prc' = [prc EXCEPT ![i] = r.sp]
          /\ clone' = IF r.rc.live THEN [clone EXCEPT ![i] = r.rc] ELSE clone
          /\ faults' = IF r.faulted THEN faults + 1 ELSE faults
          /\ res' = [op |-> "ReadCloser", i |-> i, n |-> 0, err |-> r.err,
                     rcNil |-> ~r.rc.live, touched |-> FALSE]
    /\ rcCalls' = [rcCalls EXCEPT ![i] = @ + 1]
    /\ UNCHANGED <<files, offered, written, got, eof, lateWrite>>
    /\ UNCHANGED otherThanSpool

\* a call clone[i].Read(p) with len(p) = k
Read(i, k) ==
    /\ clone[i].live
    /\ ~eof[i]
    /\ LET r == ReaderRead(clone[i], prc[i], files, k)
       IN /\ clone' = [clone EXCEPT ![i] = r.rc]
          /\ prc' = [prc EXCEPT ![i] = r.sp]
          /\ got' = [got EXCEPT ![i] = @ \o r.data]
          /\ eof' = [eof EXCEPT ![i] = r.eof]
          /\ res' = [op |-> "Read", i |-> i, n |-> Len(r.data), err |-> r.err,
                     rcNil |-> FALSE, touched |-> FALSE]
    /\ UNCHANGED <<files, faults, offered, written, lateWrite, rcCalls>>
    /\ UNCHANGED otherThanSpool

\* a call clone[i].Close()
CloseReader(i) ==
    /\ clone[i].live
    /\ res.op /= "ReaderClose"
    /\ LET r == ReaderClose(clone[i], files)
       IN /\ clone' = [clone EXCEPT ![i] = r.rc]
          /\ files' = r.files
          /\ res' = [op |-> "ReaderClose", i |-> i, n |-> 0, err |-> r.err,
                     rcNil |-> FALSE, touched |-> files' /= files]
    /\ UNCHANGED <<prc, faults, offered, written, got, eof, lateWrite, rcCalls>>
    /\ UNCHANGED otherThanSpool

\* ----------------------------------------------------- session.Duplicate

NoDup == [pc |-> "idle", n |-> 0, i |-> 0, j |-> 0, off |-> 0, len |-> 0,
          err |-> FALSE, panic |-> FALSE, cloneNil |-> TRUE]

\* the stream rc handed to Duplicate: len bytes of the test stream
NewSource(len) == [len |-> len, pos |-> 0, closed |-> FALSE]

NewDup ==
    /\ dup = NoDup
    /\ src = NewSource(0)

\* "defer rc.Close()" as it runs when Duplicate returns
DeferredClose(s) == [s EXCEPT !.closed = TRUE]

\* mutant of MultiWriterNext: only the first writer receives the bytes
MultiWriterFirstOnly(d) == [d EXCEPT !.pc = "copy"]

\* io.MultiWriter.Write after writer d.i took the whole slice: the next
\* writer, or back to io.Copy's read when all writers have it
MultiWriterNext(d) ==
    IF d.i < d.n THEN [d EXCEPT !.i = d.i + 1] ELSE [d EXCEPT !.pc = "copy"]

\* session.Duplicate(rc, n) is entered: n spools are created
DupCall(n, len) ==
    /\ dup.pc = "idle"
    /\ dup' = [NoDup EXCEPT !.pc = "copy", !.n = n]
    /\ src' = NewSource(len)
    /\ prc' = [i \in Spools |-> NewMemFileReadCloser(prc[i].limit)]
    /\ UNCHANGED <<clone, files, faults, res, offered, written, got, eof, lateWrite, rcCalls>>
    /\ UNCHANGED otherThanDup

\* io.Copy reads the next k bytes of rc, reaches EOF, or the read fails
DupRead(k, fails) ==
    /\ dup.pc = "copy"
    /\ IF fails
       THEN /\ faults < MaxFaults
            /\ k = 1
            /\ faults' = faults + 1
            /\ dup' = [dup EXCEPT !.pc = "return", !.err = TRUE]
            /\ src' = src
       ELSE /\ faults' = faults
            /\ IF src.pos = src.len
               THEN /\ k = 1
                    /\ dup' = [dup EXCEPT !.pc = "close", !.i = 1]
                    /\ src' = src
               ELSE /\ src.pos + k =< src.len
                    /\ src' = [src EXCEPT !.pos = src.pos + k]
                    /\ dup' = IF dup.n = 0
                              THEN dup
                              ELSE [dup EXCEPT !.pc = "write", !.i = 1,
                                               !.off = src.pos, !.len = k]
    /\ UNCHANGED <<prc, clone, files, res, offered, written, got, eof, lateWrite, rcCalls>>
    /\ UNCHANGED otherThanDup

\* io.MultiWriter hands the slice to writer dup.i
DupWrite(fk, k) ==
    /\ dup.pc = "write"
    /\ LET i == dup.i
           p == Chunk(dup.off, dup.len)
           r == MemFileWrite(prc[i], files, p, fk, k)
       IN /\ (fk /= "none") = r.faulted
          /\ fk /= "write" => k = 0
          /\ r.faulted => faults < MaxFaults
          /\ prc' = [prc EXCEPT ![i] = r.sp]
          /\ files' = r.files
          /\ faults' = IF r.faulted THEN faults + 1 ELSE faults
          /\ written' = [written EXCEPT ![i] = @ \o SubSeq(p, 1, r.n)]
          /\ offered' = [offered EXCEPT ![i] = @ + Len(p)]
          /\ res' = [op |-> "Write", i |-> i, n |-> r.n, err |-> r.err,
                     rcNil |-> FALSE, touched |-> files' /= files]
          /\ dup' = IF r.err \/ r.n /= Len(p)
                    THEN [dup EXCEPT !.pc = "return", !.err = TRUE]
                    ELSE MultiWriterNext(dup)
    /\ UNCHANGED <<src, clone, got, eof, lateWrite, rcCalls>>
    /\ UNCHANGED otherThanDup

\* "err = prc[i].Close()" of the closing loop
DupClose(fk) ==
    /\ dup.pc = "close"
    /\ IF dup.i > dup.n
       THEN /\ fk = "none"
            /\ dup' = [dup EXCEPT !.pc = "readers", !.i = 1, !.cloneNil = FALSE]
            /\ UNCHANGED <<prc, faults, res>>
       ELSE LET r == MemFileClose(prc[dup.i], fk)
            IN /\ (fk /= "none") = r.faulted
               /\ r.faulted => faults < MaxFaults
               /\ prc' = [prc EXCEPT ![dup.i] = r.sp]
               /\ faults' = IF r.faulted THEN faults + 1 ELSE faults
               /\ res' = [op |-> "Close", i |-> dup.i, n |-> 0, err |-> r.err,
                          rcNil |-> FALSE, touched |-> FALSE]
               /\ dup' = IF r.err
                         THEN [dup EXCEPT !.pc = "closeCleanup", !.j = dup.i, !.err = TRUE]
                         ELSE [dup EXCEPT !.i = dup.i + 1]
    /\ UNCHANGED <<src, clone, files, offered, written, got, eof, lateWrite, rcCalls>>
    /\ UNCHANGED otherThanDup

\* one round of "for j := i; j < n; j++ { prc[i].Close(); x, _ :=
\* prc[i].ReadCloser(); if x != nil { x.Close() } }": the loop uses i, not j
DupCloseCleanup(fk) ==
    /\ dup.pc = "closeCleanup"
    /\ IF dup.j > dup.n
       THEN /\ fk = "none"
            /\ dup' = [dup EXCEPT !.pc = "return"]
            /\ UNCHANGED <<prc, clone, files, faults, res, rcCalls>>
       ELSE LET i == dup.i
                c == MemFileClose(prc[i], "none")
                r == MemFileReadCloserOf(c.sp, files, fk)
                x == ReaderClose(r.rc, files)
            IN /\ (fk /= "none") = r.faulted
               /\ r.faulted => faults < MaxFaults
               /\ faults' = IF r.faulted THEN faults + 1 ELSE faults
               /\ prc' = [prc EXCEPT ![i] = r.sp]
               /\ rcCalls' = [rcCalls EXCEPT ![i] = @ + 1]
               /\ clone' = IF r.rc.live THEN [clone EXCEPT ![i] = x.rc] ELSE clone
               /\ files' = IF r.rc.live THEN x.files ELSE files
               /\ res' = [op |-> "ReadCloser", i |-> i, n |-> 0, err |-> r.err,
                          rcNil |-> ~r.rc.live, touched |-> files' /= files]
               /\ dup' = [dup EXCEPT !.j = dup.j + 1]
    /\ UNCHANGED <<src, offered, written, got, eof, lateWrite>>
    /\ UNCHANGED otherThanDup

\* "clone[i], err = prc[i].ReadCloser()" of the last loop; on an error
\* "for j := 0; j < n; j++ { clone[i].Close() }; clone = nil"
DupReadCloser(fk) ==
    /\ dup.pc = "readers"
    /\ IF dup.i > dup.n
       THEN /\ fk = "none"
            /\ dup' = [dup EXCEPT !.pc = "return"]
            /\ UNCHANGED <<prc, clone, files, faults, res, rcCalls>>
       ELSE LET i == dup.i
                r == MemFileReadCloserOf(prc[i], files, fk)
                x == ReaderClose(r.rc, files)
            IN /\ (fk /= "none") = r.faulted
               /\ r.faulted => faults < MaxFaults
               /\ faults' = IF r.faulted THEN faults + 1 ELSE faults
               /\ prc' = [prc EXCEPT ![i] = r.sp]
               /\ rcCalls' = [rcCalls EXCEPT ![i] = @ + 1]
               /\ res' = [op |-> "ReadCloser", i |-> i, n |-> 0, err |-> r.err,
                          rcNil |-> ~r.rc.live, touched |-> FALSE]
               /\ IF ~r.err
                  THEN /\ clone' = [clone EXCEPT ![i] = r.rc]
                       /\ files' = files
                       /\ dup' = [dup EXCEPT !.i = dup.i + 1]
                  ELSE IF ~r.rc.live
                  THEN \* clone[i] is a nil interface: clone[i].Close() panics
                       /\ clone' = clone
                       /\ files' = files
                       /\ dup' = [dup EXCEPT !.pc = "return", !.err = TRUE, !.panic = TRUE]
                  ELSE /\ clone' = [clone EXCEPT ![i] = x.rc]
                       /\ files' = x.files
                       /\ dup' = [dup EXCEPT !.pc = "return", !.err = TRUE, !.cloneNil = TRUE]
    /\ UNCHANGED <<src, offered, written, got, eof, lateWrite>>
    /\ UNCHANGED otherThanDup

\* Duplicate returns (or unwinds): the deferred rc.Close() runs
DupReturn ==
    /\ dup.pc = "return"
    /\ dup' = [dup EXCEPT !.pc = "done"]
    /\ src' = DeferredClose(src)
    /\ UNCHANGED spoolVars
    /\ UNCHANGED otherThanDup

\* the caller reads from, or closes, one of the returned readers
CloneRead(i, k) ==
    /\ dup.pc = "done" /\ ~dup.err /\ i =< dup.n
    /\ Read(i, k)

CloneClose(i) ==
    /\ dup.pc = "done" /\ ~dup.err /\ i =< dup.n
    /\ CloseReader(i)

\* ------------------------------------------------------------ credentials

\* the characters of a host name
HostName(h) == CASE h = "h1" -> <<"h", "1">> [] h = "h2" -> <<"h", "2">>
                 [] h = "a.h1" -> <<"a", ".", "h", "1">> [] OTHER -> <<>>

LowerChar(c) ==
    CASE c = "H" -> "h" [] c = "A" -> "a" [] c = "B" -> "b" [] c = "D" -> "d"
      [] c = "E" -> "e" [] c = "F" -> "f" [] c = "L" -> "l" [] c = "R" -> "r"
      [] c = "S" -> "s" [] c = "T" -> "t" [] c = "U" -> "u" [] OTHER -> c

\* strings.ToLower(s)
ToLower(s) == [i \in DOMAIN s |-> LowerChar(s[i])]

\* strings.HasSuffix(s, suffix)
HasSuffix(s, suffix) ==
    /\ Len(suffix) =< Len(s)
    /\ SubSeq(s, Len(s) - Len(suffix) + 1, Len(s)) = suffix

\* mutant of domainMatch: the byte before the suffix is not looked at
domainMatchAnySuffix(c, domain) ==
    LET s == ToLower(domain)
    IN \/ c.Domain = <<>> \/ c.Domain = s
       \/ HasSuffix(s, c.Domain) /\ Count(c.Domain, ".") >= 1
       \/ HasPrefix(c.Domain, <<".">>) /\ HasSuffix(s, c.Domain)

\* Credential.domainMatch(domain)
domainMatch(c, domain) ==
    LET s == ToLower(domain)
    IN IF c.Domain = <<>> \/ c.Domain = s THEN TRUE
       ELSE IF /\ HasSuffix(s, c.Domain)
               /\ Count(c.Domain, ".") >= 1
               /\ s[Len(s) - Len(c.Domain)] = "."
            THEN TRUE
       ELSE HasPrefix(c.Domain, <<".">>) /\ HasSuffix(s, c.Domain)

\* mutant of pathMatch: every prefix matches
pathMatchAnyPrefix(c, path) == c.Path = <<>> \/ HasPrefix(path, c.Path)

\* Credential.pathMatch(path)
pathMatch(c, path) ==
    IF c.Path = <<>> \/ c.Path = path THEN TRUE
    ELSE IF HasPrefix(path, c.Path)
         THEN IF HasSuffix(c.Path, <<"/">>) THEN TRUE
              ELSE path[Len(c.Path) + 1] = "/"
         ELSE FALSE

\* Credential.Matches(uri)
CredentialMatches(c, host, path) == domainMatch(c, HostName(host)) /\ pathMatch(c, path)

NoCredentialsErr == "Matching login credentials not found"

\* mutant of Login: the last credential that matches
RECURSIVE LoginLast(_, _, _, _)
LoginLast(v, host, path, i) ==
    IF i > Len(v)
    THEN [username |-> "", password |-> "", err |-> NoCredentialsErr]
    ELSE LET rest == LoginLast(v, host, path, i + 1)
         IN IF rest.err = "" THEN rest
            ELSE IF CredentialMatches(v[i], host, path)
            THEN [username |-> v[i].Username, password |-> v[i].Password, err |-> ""]
            ELSE rest

\* OrderedCredentials.Login(uri, realm): the first credential that matches
RECURSIVE Login(_, _, _, _)
Login(v, host, path, i) ==
    IF i > Len(v)
    THEN [username |-> "", password |-> "", err |-> NoCredentialsErr]
    ELSE IF CredentialMatches(v[i], host, path)
    THEN [username |-> v[i].Username, password |-> v[i].Password, err |-> ""]
    ELSE Login(v, host, path, i + 1)

\* session.Login(uri, realm) -> session.credentials.Login(uri, realm)
OrderedCredentialsLogin(v, host, path, realm) == Login(v, host, path, 1)

\* NewCredential(domain, path, username, password)
NewCredential(domain, path, username, password) ==
    [Domain |-> ToLower(domain), Path |-> path, Username |-> username, Password |-> password]

\* mutant of CredLess: the paths are not compared
CredLessDomainOnly(x, y) ==
    IF x.Domain = <<>> /\ y.Domain /= <<>> THEN FALSE
    ELSE IF x.Domain /= <<>> /\ y.Domain = <<>> THEN TRUE
    ELSE IF ~HasPrefix(x.Domain, <<".">>) /\ HasPrefix(y.Domain, <<".">>) THEN TRUE
    ELSE IF HasPrefix(x.Domain, <<".">>) /\ ~HasPrefix(y.Domain, <<".">>) THEN FALSE
    ELSE IF Count(x.Domain, ".") > Count(y.Domain, ".") THEN TRUE
    ELSE IF Count(x.Domain, ".") < Count(y.Domain, ".") THEN FALSE
    ELSE StrLess(x.Domain, y.Domain)

\* OrderedCredentials.Less(i, j) on the elements x = c.v[i], y = c.v[j]
CredLess(x, y) ==
    IF x.Domain = <<>> /\ y.Domain /= <<>> THEN FALSE
    ELSE IF x.Domain /= <<>> /\ y.Domain = <<>> THEN TRUE
    ELSE IF ~HasPrefix(x.Domain, <<".">>) /\ HasPrefix(y.Domain, <<".">>) THEN TRUE
    ELSE IF HasPrefix(x.Domain, <<".">>) /\ ~HasPrefix(y.Domain, <<".">>) THEN FALSE
    ELSE IF Count(x.Domain, ".") > Count(y.Domain, ".") THEN TRUE
    ELSE IF Count(x.Domain, ".") < Count(y.Domain, ".") THEN FALSE
    ELSE IF StrLess(x.Domain, y.Domain) THEN TRUE
    ELSE IF StrLess(y.Domain, x.Domain) THEN FALSE
    ELSE IF Count(x.Path, "/") > Count(y.Path, "/") THEN TRUE
    ELSE IF Count(x.Path, "/") < Count(y.Path, "/") THEN FALSE
    ELSE StrLess(x.Path, y.Path)

\* sort.Sort(oc), as an insertion sort by CredLess
RECURSIVE InsertCredential(_, _)
InsertCredential(sorted, x) ==
    IF sorted = <<>> THEN <<x>>
    ELSE IF CredLess(x, Head(sorted)) THEN <<x>> \o sorted
    ELSE <<Head(sorted)>> \o InsertCredential(Tail(sorted), x)

RECURSIVE SortCredentials(_)
SortCredentials(v) ==
    IF v = <<>> THEN <<>>
    ELSE InsertCredential(SortCredentials(SubSeq(v, 1, Len(v) - 1)), v[Len(v)])

\* the credential stores a session is created with, each sorted as
\* OrderedCredentials.Less sorts it
CredHostRoot == [Domain |-> <<"h", "1">>, Path |-> <<"/">>, Username |-> "u1", Password |-> "p1"]
CredAny == [Domain |-> <<>>, Path |-> <<>>, Username |-> "u2", Password |-> "p2"]
CredStores == {<<>>, <<CredHostRoot>>, <<CredAny>>, <<CredHostRoot, CredAny>>}

\* --------------------------------------------------------------- builder

\* Challenge.Basic: "Basic " followed by the base64 of "username:password",
\* the encoding kept as a token over its input
Basic(ch, v, host, path) ==
    LET l == Login(v, host, path, 1)
    IN IF l.err /= ""
       THEN [auth |-> NoAuth, err |-> l.err]
       ELSE [auth |-> <<"Basic", "base64", l.username, ":", l.password>>, err |-> ""]

\* the qop loop over challenge.Qop: auth-int wins over auth
RECURSIVE SelectQop(_, _)
SelectQop(options, qop) ==
    IF options = <<>> THEN qop
    ELSE LET v == Head(options)
             qop1 == IF v = "auth" THEN (IF qop /= "auth-int" THEN v ELSE qop)
                     ELSE IF v = "auth-int" THEN v
                     ELSE qop
         IN SelectQop(Tail(options), qop1)

\* req.URL.RequestURI() of a URL without query: the path, "/" when it is empty
RequestURI(path) == IF path = <<>> THEN <<"/">> ELSE path

\* Challenge.Digest, as far as the driver depends on it: the credentials are
\* looked up first, then session.CNonce() may fail (randFails: rand.Read
\* returned an error), then the algorithm is checked; the header names the
\* user and the request path
Digest(ch, v, host, path, randFails) ==
    LET l == Login(v, host, path, 1)
    IN IF l.err /= ""
       THEN [auth |-> NoAuth, err |-> l.err]
       ELSE IF randFails
       THEN [auth |-> NoAuth, err |-> "rand.Read"]
       ELSE IF ch.Algorithm \notin {"", "MD5", "MD5-sess"}
       THEN [auth |-> NoAuth, err |-> "unhandled algorithm"]
       ELSE [auth |-> <<"Digest", l.username, "uri">> \o RequestURI(path), err |-> ""]

UnrecognizedScheme == "unrecognized authorization scheme"

\* the cases of "switch challenge.Scheme" other than default, for a scheme
\* given by its characters
AcceptsScheme(scheme) ==
    scheme \in {<<"B", "a", "s", "i", "c">>, <<"D", "i", "g", "e", "s", "t">>}

\* Challenge.Authorization(session, req)
Authorization(ch, v, host, path, randFails) ==
    CASE ch.Scheme = "Basic" -> Basic(ch, v, host, path)
      [] ch.Scheme = "Digest" -> Digest(ch, v, host, path, randFails)
      [] OTHER -> [auth |-> NoAuth, err |-> UnrecognizedScheme]

\* ----------------------------------------------------- SetAuthorization

\* uri.ResolveReference(ref) for a reference that is an absolute URL (its
\* host is set) or a rooted path
ResolveReference(host, ref) ==
    IF ref.host /= "" THEN [host |-> ref.host, path |-> ref.path]
    ELSE [host |-> host, path |-> ref.path]

RECURSIVE SetEach(_, _, _, _)
SetEach(dom, host, domain, auth) ==
    IF domain = <<>> THEN dom
    ELSE LET ref == Head(domain)
             abs == ResolveReference(host, ref)
             dom1 == IF ref.bad THEN dom
                     ELSE [dom EXCEPT ![abs.host] = AuthCacheSet(dom[abs.host], abs.path, auth)]
         IN SetEach(dom1, host, Tail(domain), auth)

\* session.SetAuthorization(uri, domain, auth): the new AuthCache.Domain
SetAuthorization(dom, host, domain, auth) ==
    IF Len(domain) = 0
    THEN [dom EXCEPT ![host] = AuthCacheSet(dom[host], Root, auth)]
    ELSE SetEach(dom, host, domain, auth)

\* the domain entry "http://h2": an absolute URL with an empty path
RefNoPath == [bad |-> FALSE, host |-> "h2", path |-> <<>>]
RefSlash == [bad |-> FALSE, host |-> "", path |-> <<"/">>]
RefSub == [bad |-> FALSE, host |-> "", path |-> <<"/", "a", "/">>]
SessionDomains == SeqsUpTo({RefNoPath, RefSlash, RefSub}, MaxDigestDomain)

\* a call session.SetAuthorization(uri, domain, auth) with uri.Host = host
SetAuthorizationCall(host, domain, auth) ==
    /\ NumEntries < MaxEntries
    /\ Domain' = SetAuthorization(Domain, host, domain, auth)
    /\ getRes' = NoGet
    /\ UNCHANGED lastSet
    /\ UNCHANGED otherThanAuth

\* a call session.Authorization(uri): "return session.authcache.Get(uri)"
AuthorizationCall(host, path) == Get(host, path)

\* ---------------------------------------------------------- Client.AuthDo

StatusOK == 200
StatusUnauthorized == 401

RefA == [bad |-> FALSE, host |-> "", path |-> <<"/", "a", "/">>]
BasicChallenge ==
    [Scheme |-> "Basic", Realm |-> "r", Domain |-> <<>>, Algorithm |-> "", Qop |-> <<>>]
DigestChallenge ==
    [Scheme |-> "Digest", Realm |-> "r", Domain |-> <<>>, Algorithm |-> "MD5", Qop |-> <<>>]
DigestChallengeA ==
    [Scheme |-> "Digest", Realm |-> "r", Domain |-> <<RefA>>, Algorithm |-> "", Qop |-> <<>>]
DigestChallengeSHA ==
    [Scheme |-> "Digest", Realm |-> "r", Domain |-> <<>>, Algorithm |-> "SHA-256", Qop |-> <<>>]
OtherChallenge ==
    [Scheme |-> "NTLM", Realm |-> "", Domain |-> <<>>, Algorithm |-> "", Qop |-> <<>>]
DigestChallengeInt ==
    [Scheme |-> "Digest", Realm |-> "r", Domain |-> <<>>, Algorithm |-> "MD5",
     Qop |-> <<"auth", "auth-int">>]
ChallengeSet ==
    {BasicChallenge, DigestChallenge, DigestChallengeA, DigestChallengeSHA, OtherChallenge}

\* what hr.Do(req) and Authentication(rsp) can deliver: a transport error, or
\* a response with a status and the challenges of its WWW-Authenticate
\* headers (or a parse error for them)
Outcomes ==
    {[err |-> TRUE, status |-> 0, chs |-> <<>>, parseErr |-> FALSE]}
    \cup {[err |-> FALSE, status |-> StatusOK, chs |-> <<>>, parseErr |-> FALSE]}
    \cup {[err |-> FALSE, status |-> StatusUnauthorized, chs |-> c, parseErr |-> FALSE] :
            c \in SeqsUpTo(ChallengeSet, MaxChallenges)}
    \cup {[err |-> FALSE, status |-> StatusUnauthorized, chs |-> <<>>, parseErr |-> TRUE]}

\* the challenges of a retry's response are not looked at
RetryOutcomes == {o \in Outcomes : o.chs = <<>> /\ ~o.parseErr}

\* the same for requests with a body: the challenges that tell the body
\* handling apart
BodyChallengeSet == {BasicChallenge, DigestChallengeInt, OtherChallenge}
BodyOutcomes ==
    RetryOutcomes
    \cup {[err |-> FALSE, status |-> StatusUnauthorized, chs |-> c, parseErr |-> FALSE] :
            c \in SeqsUpTo(BodyChallengeSet, MaxChallenges) \ {<<>>}}

RequestPaths == {<<>>, <<"/">>, <<"/", "a">>, <<"/", "a", "/", "a">>}

NoAuthDo == [pc |-> "idle", host |-> "", path |-> <<>>, hdr |-> <<>>, auth |-> NoAuth,
             chs |-> <<>>, i |-> 0, status |-> 0, err |-> "", panic |-> FALSE,
             sent |-> <<>>, cached |-> FALSE, seededBefore |-> FALSE,
             built |-> <<>>, outcomes |-> <<>>,
             reqBody |-> 0, body |-> 0, obtained |-> {}, defers |-> <<>>, closed |-> {},
             made |-> 0, consumed |-> {}, partial |-> {}, hashed |-> "", sentBody |-> <<>>]

NoPrev == [host |-> "", path |-> <<>>, seeded |-> FALSE]

NewAuthDo(v) ==
    /\ creds = v
    /\ ad = NoAuthDo
    /\ prev = NoPrev
    /\ adCalls = 0

\* "var body io.ReadCloser" before it is assigned, and the Body of a request
\* that has none
NilBody == 0

\* the reader the caller put in req.Body
CallerBody == 1

\* mutant of DeferClose: only the clone that became req.Body is deferred
DeferCloseRequestBody(defers, c0, c1) == <<c0>> \o defers

\* "defer req.Body.Close(); defer body.Close()" right after
\* "req.Body, body = clone[0], clone[1]": the receivers are evaluated at the
\* defer statements, the calls run last-in first-out when AuthDo returns
DeferClose(defers, c0, c1) == <<c1, c0>> \o defers

\* "clone, err = session.Duplicate(rc, 2)" and what follows it: Duplicate
\* closes rc on every path; on an error AuthDo returns with no clone, else it
\* takes the two fresh readers as req.Body and body and defers their Close
\* a reader that still has the whole of the caller's body to deliver
CompleteBody(a, rc) == rc /= NilBody /\ rc \notin a.consumed /\ rc \notin a.partial

\* the name of the next reader that is created
NewReader(a) == 2 + Cardinality(a.obtained) + a.made

DuplicateBody(a, rc, fails) ==
    LET a1 == [a EXCEPT !.closed = a.closed \cup {rc}, !.consumed = a.consumed \cup {rc}]
        c0 == NewReader(a)
        c1 == c0 + 1
    IN IF fails
       THEN [a1 EXCEPT !.pc = "done", !.err = "error cloning io.ReadCloser"]
       ELSE [a1 EXCEPT !.reqBody = c0, !.body = c1,
                       !.obtained = a.obtained \cup {c0, c1},
                       !.partial = IF CompleteBody(a, rc) THEN a.partial
                                   ELSE a.partial \cup {c0, c1},
                       !.defers = DeferClose(a.defers, c0, c1)]

\* Challenge.Digest with qop auth-int and a request body: io.Copy feeds what
\* req.Body still delivers to the body hash and to a new spool, whose reader
\* replaces req.Body; the hash is of the whole body only if req.Body had it
HashBody(a) ==
    LET rid == NewReader(a)
        whole == CompleteBody(a, a.reqBody)
    IN [a EXCEPT !.consumed = a.consumed \cup {a.reqBody},
                 !.made = a.made + 1,
                 !.reqBody = rid,
                 !.partial = IF whole THEN a.partial ELSE a.partial \cup {rid},
                 !.hashed = IF whole THEN "body" ELSE "nothing"]

\* hr.Do(req): the transport reads req.Body and closes it
SendBody(a) ==
    [a EXCEPT !.sentBody = Append(a.sentBody,
                  [has |-> a.reqBody /= NilBody, whole |-> CompleteBody(a, a.reqBody),
                   hashed |-> a.hashed]),
              !.consumed = IF a.reqBody = NilBody THEN a.consumed
                           ELSE a.consumed \cup {a.reqBody}]

\* the deferred calls run when AuthDo returns, whatever the exit
RunDefers(a) ==
    IF a.pc = "done"
    THEN [a EXCEPT !.closed = a.closed \cup {a.defers[k] : k \in DOMAIN a.defers}]
    ELSE a

\* hr.AuthDo(req, session) is entered: the nil check, then
\* "auth := session.Authorization(req.URL)" and the Header.Add of a cached
\* value, then the first duplication of a body that may have to be sent again
ADCall(host, path, nilSession, hasBody, dupFails) ==
    /\ ad.pc \in {"idle", "done"}
    /\ adCalls < MaxAuthDo
    /\ adCalls' = adCalls + 1
    /\ LET g == AuthCacheGet(Domain, host, path)
           a0 == [NoAuthDo EXCEPT !.host = host, !.path = path,
                     !.seededBefore = (prev.seeded /\ prev.host = host /\ prev.path = path)]
           a1 == [a0 EXCEPT !.pc = "send1",
                            !.hdr = IF g.auth /= NoAuth THEN <<g.auth>> ELSE <<>>,
                            !.auth = g.auth,
                            !.cached = (g.auth /= NoAuth),
                            !.reqBody = IF hasBody THEN CallerBody ELSE NilBody]
       IN ad' = RunDefers(
                IF nilSession
                THEN [a0 EXCEPT !.pc = "done", !.err = "invalid session: nil"]
                ELSE IF g.panic
                THEN [a0 EXCEPT !.pc = "done", !.panic = TRUE]
                ELSE IF g.auth = NoAuth /\ hasBody
                THEN DuplicateBody(a1, CallerBody, dupFails)
                ELSE a1)
    /\ prev' = NoPrev
    /\ UNCHANGED <<creds, Domain, getRes, lastSet>>
    /\ UNCHANGED otherThanAuthDo

\* "rsp, err = hr.Do(req)" and, on a 401, "challenges, err = Authentication(rsp)"
ADSend(o) ==
    /\ ad.pc = "send1"
    /\ LET a1 == [SendBody(ad) EXCEPT !.sent = Append(ad.sent, ad.hdr), !.status = o.status,
                            !.outcomes = Append(ad.outcomes,
                                [err |-> o.err, built |-> Len(ad.built)])]
       IN ad' = RunDefers(
                IF o.err
                THEN [a1 EXCEPT !.pc = "done", !.err = "transport"]
                ELSE IF o.status /= StatusUnauthorized
                THEN [a1 EXCEPT !.pc = "done"]
                ELSE IF o.parseErr
                THEN [a1 EXCEPT !.pc = "done", !.err = "unable to parse WWW-Authenticate"]
                ELSE IF Len(o.chs) = 0
                THEN [a1 EXCEPT !.pc = "done", !.err = "unable to parse WWW-Authenticate header"]
                ELSE [a1 EXCEPT !.pc = "challenge", !.chs = o.chs, !.i = 1])
    /\ UNCHANGED <<creds, prev, adCalls, Domain, getRes, lastSet>>
    /\ UNCHANGED otherThanAuthDo

\* the end of one round of "for i, challenge := range challenges"
NextChallenge(a) ==
    IF a.i = Len(a.chs) THEN [a EXCEPT !.pc = "done"] ELSE [a EXCEPT !.pc = "challenge", !.i = a.i + 1]

\* mutant of Continues: every builder error moves on to the next challenge
ContinuesAlways(err, lastTry) == ~lastTry

\* "if err == NoCredentialsErr && !lastTry { continue }"
Continues(err, lastTry) == err = NoCredentialsErr /\ ~lastTry

\* "auth, err = challenge.Authorization(session, req)", the Header.Add and the
\* body of the retry: the spare clone itself on the last try, else a fresh
\* pair of clones of it
ADChallenge(randFails, dupFails, readFails) ==
    /\ ad.pc = "challenge"
    /\ LET ch == ad.chs[ad.i]
           lastTry == ad.i = Len(ad.chs)
           r0 == Authorization(ch, creds, ad.host, ad.path, randFails)
           hashes == /\ r0.err = ""
                     /\ ch.Scheme = "Digest"
                     /\ SelectQop(ch.Qop, "") = "auth-int"
                     /\ ad.reqBody /= NilBody
           r == IF hashes /\ readFails THEN [auth |-> NoAuth, err |-> "body read"] ELSE r0
           a0 == IF hashes
                 THEN (IF readFails THEN [ad EXCEPT !.consumed = ad.consumed \cup {ad.reqBody}]
                       ELSE HashBody(ad))
                 ELSE IF r0.err = "" THEN [ad EXCEPT !.hashed = ""] ELSE ad
           a1 == [a0 EXCEPT !.auth = r.auth, !.err = r.err,
                            !.built = Append(ad.built,
                                [i |-> ad.i, err |-> r.err, sends |-> Len(ad.sent)])]
           a2 == [a1 EXCEPT !.pc = "send2", !.hdr = Append(ad.hdr, r.auth)]
       IN ad' = RunDefers(
                IF r.err /= ""
                THEN IF Continues(r.err, lastTry)
                     THEN [a1 EXCEPT !.i = ad.i + 1]
                     ELSE [a1 EXCEPT !.pc = "done"]
                ELSE IF r.auth /= NoAuth
                THEN IF ad.body = NilBody
                     THEN a2
                     ELSE IF lastTry
                     THEN [a2 EXCEPT !.reqBody = ad.body]
                     ELSE DuplicateBody(a2, ad.body, dupFails)
                ELSE NextChallenge(a1))
    /\ UNCHANGED <<creds, prev, adCalls, Domain, getRes, lastSet>>
    /\ UNCHANGED otherThanAuthDo

\* mutant of RetrySucceeded: any response of the retry counts
RetrySucceededAnyStatus(o) == ~o.err

\* "if err == nil && rsp.StatusCode != http.StatusUnauthorized" after the retry
RetrySucceeded(o) == ~o.err /\ o.status /= StatusUnauthorized

\* the retry "rsp, err = hr.Do(req)"; when it is not a 401,
\* "session.SetAuthorization(req.URL, challenge.Domain, auth); return"
ADRetry(o) ==
    /\ ad.pc = "send2"
    /\ LET ch == ad.chs[ad.i]
           ok == RetrySucceeded(o)
           a1 == [SendBody(ad) EXCEPT !.sent = Append(ad.sent, ad.hdr), !.status = o.status,
                            !.err = IF o.err THEN "transport" ELSE "",
                            !.outcomes = Append(ad.outcomes,
                                [err |-> o.err, built |-> Len(ad.built)])]
       IN /\ ad' = RunDefers(IF ok THEN [a1 EXCEPT !.pc = "done"] ELSE NextChallenge(a1))
          /\ Domain' = IF ok THEN SetAuthorization(Domain, ad.host, ch.Domain, ad.auth)
                       ELSE Domain
          /\ prev' = IF ok
                     THEN [host |-> ad.host, path |-> ad.path,
                           seeded |-> (~ad.cached /\ ch.Scheme = "Basic"
                                       /\ ad.sent = <<<<>>>>)]
                     ELSE prev
    /\ UNCHANGED <<creds, adCalls, getRes, lastSet>>
    /\ UNCHANGED otherThanAuthDo

\* --------------------------------------------------------------- Client.Do

NilRsp == "nil"
NilErr == ""
TimeoutErr == "read timed out"

\* what hr.Client.Do(req) can return to the goroutine: a response and no
\* error, an error and no response, or (a refused redirect) both
TransportResults ==
    {[rsp |-> "rsp200", err |-> NilErr], [rsp |-> "rsp401", err |-> NilErr],
     [rsp |-> NilRsp, err |-> "refused"], [rsp |-> "rsp302", err |-> "redirect"]}

NoTransportResult == [rsp |-> NilRsp, err |-> NilErr]

NoDo == [pc |-> "idle", g |-> "none", timeout |-> 0, fired |-> FALSE,
         tres |-> NoTransportResult, rsp |-> NilRsp, err |-> NilErr,
         via |-> "none", cancel |-> "none", ret |-> NoTransportResult]

NewDo ==
    /\ do = NoDo
    /\ doCalls = 0
    /\ leaked = 0

\* hr.Do(req) is entered: the channels are made, the timer is armed when
\* hr.Timeout > 0, the goroutine is started, the caller reaches the select
DoCall(timeout) ==
    /\ do.pc \in {"idle", "returned"}
    /\ doCalls < MaxDoCalls
    /\ doCalls' = doCalls + 1
    /\ do' = [NoDo EXCEPT !.pc = "select", !.g = "run", !.timeout = timeout]
    /\ leaked' = IF do.g \in {"run", "sendErr", "sendRsp"} THEN leaked + 1 ELSE leaked
    /\ UNCHANGED otherThanDo

\* time.After(hr.Timeout) delivers on timeoutCh
DoTimer ==
    /\ do.pc = "select"
    /\ do.timeout > 0
    /\ ~do.fired
    /\ do' = [do EXCEPT !.fired = TRUE]
    /\ UNCHANGED <<doCalls, leaked, otherThanDo>>

\* mutant of GoroutineStore: the goroutine assigns to the named results of Do
GoroutineStoreShared(d, result) == [d EXCEPT !.rsp = result.rsp, !.err = result.err]

\* "rsp, err := hr.Client.Do(req)" in the goroutine declares its own rsp and
\* err: the named results of Do are not touched
GoroutineStore(d, result) == d

\* the goroutine's hr.Client.Do(req) returns; after a cancellation took
\* effect it returns an error
DoTransport(result) ==
    /\ do.g = "run"
    /\ do.cancel = "done" => result.err /= NilErr
    /\ do' = [GoroutineStore(do, result) EXCEPT
                !.tres = result,
                !.g = IF result.err /= NilErr THEN "sendErr" ELSE "sendRsp"]
    /\ UNCHANGED <<doCalls, leaked, otherThanDo>>

\* "case err = <-errCh:" is taken: the goroutine goes on to send rsp
DoSelectErr ==
    /\ do.pc = "select"
    /\ do.g = "sendErr"
    /\ do' = [do EXCEPT !.err = do.tres.err, !.via = "err", !.pc = "recv", !.g = "sendRsp"]
    /\ UNCHANGED <<doCalls, leaked, otherThanDo>>

\* "rsp = <-rspCh" inside the errCh case, and the return
DoRecvRsp ==
    /\ do.pc = "recv"
    /\ do.g = "sendRsp"
    /\ do' = [do EXCEPT !.rsp = do.tres.rsp, !.pc = "returned", !.g = "done",
                        !.ret = [rsp |-> do.tres.rsp, err |-> do.err]]
    /\ UNCHANGED <<doCalls, leaked, otherThanDo>>

\* "case now = <-timeoutCh:" is taken: "go hr.Transport.CancelRequest(req)",
\* the timeout error, and the return
DoSelectTimeout ==
    /\ do.pc = "select"
    /\ do.fired
    /\ do' = [do EXCEPT !.err = TimeoutErr, !.via = "timeout", !.cancel = "requested",
                        !.pc = "returned",
                        !.ret = [rsp |-> do.rsp, err |-> TimeoutErr]]
    /\ UNCHANGED <<doCalls, leaked, otherThanDo>>

\* "case rsp = <-rspCh: err = nil" is taken, and the return
DoSelectRsp ==
    /\ do.pc = "select"
    /\ do.g = "sendRsp"
    /\ do' = [do EXCEPT !.rsp = do.tres.rsp, !.err = NilErr, !.via = "rsp",
                        !.pc = "returned", !.g = "done",
                        !.ret = [rsp |-> do.tres.rsp, err |-> NilErr]]
    /\ UNCHANGED <<doCalls, leaked, otherThanDo>>

\* the goroutine started by "go hr.Transport.CancelRequest(req)" runs
DoCancel ==
    /\ do.cancel = "requested"
    /\ do' = [do EXCEPT !.cancel = "done"]
    /\ UNCHANGED <<doCalls, leaked, otherThanDo>>

\* --------------------------------------------- the credential store alone

DomChars == {".", "a", "A"}
DomainStrings == SeqsUpTo(DomChars, MaxDomLen)
HostStrings == SeqsUpTo(DomChars, MaxDomLen + 2)
PathStrings == SeqsUpTo(PathChars, MaxPathLen)
RequestPathStrings == SeqsUpTo(PathChars, MaxPathLen + 1)

\* the credentials a JSON document may list: every pair of these domains and
\* paths, the user named after the pair
PoolDomains == {<<>>, <<"h", "1">>, <<".", "h", "1">>, <<"a", ".", "h", "1">>}
PoolPaths == {<<>>, <<"/">>, <<"/", "a", "/">>}
CredPool == {NewCredential(d, p, <<d, p>>, "pw") : d \in PoolDomains, p \in PoolPaths}
Documents ==
    {v \in SeqsUpTo(CredPool, MaxCreds) :
        \A i, j \in DOMAIN v : i /= j => <<v[i].Domain, v[i].Path>> /= <<v[j].Domain, v[j].Path>>}
LoginHosts == {"h1", "h2", "a.h1"}
Realms == {"r", "Login"}

NoCredCall == [op |-> "none", store |-> <<>>, input |-> <<>>, a |-> <<>>, b |-> <<>>,
               host |-> "", realm |-> "", res |-> FALSE, panic |-> FALSE,
               login |-> [username |-> "", password |-> "", err |-> ""]]

NewCred == cr = NoCredCall

\* NewCredentialsJSON(r) for a document listing the credentials v: the domains
\* are lower-cased and the store is sorted
NewCredentialsJSONCall(v) ==
    /\ cr.op = "none"
    /\ cr' = [NoCredCall EXCEPT !.op = "Sort", !.input = v,
                !.store = SortCredentials(
                    [i \in DOMAIN v |-> [v[i] EXCEPT !.Domain = ToLower(v[i].Domain)]])]
    /\ UNCHANGED otherThanCred

\* c.Login(uri, realm) on the loaded store (Login leaves the store as it is)
LoginCall(host, path, realm) ==
    /\ cr.op = "Sort"
    /\ cr' = [NoCredCall EXCEPT !.op = "Login", !.store = cr.store,
                !.host = host, !.b = path, !.realm = realm,
                !.login = OrderedCredentialsLogin(cr.store, host, path, realm)]
    /\ UNCHANGED otherThanCred

\* NewCredential(domain, "", "", "").domainMatch(host)
DomainMatchCall(domain, host) ==
    /\ cr.op = "none"
    /\ cr' = [NoCredCall EXCEPT !.op = "domainMatch", !.a = domain, !.b = host,
                !.res = domainMatch(NewCredential(domain, <<>>, "", ""), host)]
    /\ UNCHANGED otherThanCred

\* NewCredential("", cpath, "", "").pathMatch(path)
PathMatchCall(cpath, path) ==
    /\ cr.op = "none"
    /\ cr' = [NoCredCall EXCEPT !.op = "pathMatch", !.a = cpath, !.b = path,
                !.res = pathMatch(NewCredential(<<>>, cpath, "", ""), path)]
    /\ UNCHANGED otherThanCred

\* AuthPath{Path: cpath}.Matches(path)
AuthPathMatchesCall(cpath, path) ==
    /\ cr.op = "none"
    /\ LET ap == [Path |-> cpath, Auth |-> NoAuth]
       IN cr' = [NoCredCall EXCEPT !.op = "Matches", !.a = cpath, !.b = path,
                    !.panic = MatchesPanics(ap, path),
                    !.res = IF MatchesPanics(ap, path) THEN FALSE ELSE Matches(ap, path)]
    /\ UNCHANGED otherThanCred

\* ------------------------------------------------ the session's RWMutex

Setters == {"SetAuthorization", "SetDigestCredentials", "SetDigestSession", "Counter"}
Getters == {"Authorization", "DigestCredentials", "DigestSession"}

\* the part of the session a method reads or writes
StoreOf(op) ==
    CASE op \in {"SetAuthorization", "Authorization"} -> "authcache"
      [] op \in {"SetDigestCredentials", "DigestCredentials"} -> "md5cred"
      [] op \in {"SetDigestSession", "DigestSession"} -> "md5sess"
      [] OTHER -> "counter"

Stores == {"authcache", "md5cred", "md5sess", "counter"}

\* the two copies of the session type in the repository
SessionCopies == {"session.go", "part_000"}

\* the lock call of each method: session.Lock() in the setters and in
\* Counter, session.RLock() in the getters; SetAuthorization of session.go
\* has no lock call
LockKind(impl, op) ==
    IF impl = "session.go" /\ op = "SetAuthorization" THEN "none"
    ELSE IF op \in Setters THEN "Lock" ELSE "RLock"

NoSessCall == [op |-> "none", pc |-> "idle", saw |-> FALSE]

NewLock(impl) ==
    /\ rw = [impl |-> impl, writer |-> 0, readers |-> {}]
    /\ sess = [t \in Threads |-> NoSessCall]
    /\ dirty = [x \in Stores |-> 0]

\* thread t calls a method of the session; what a method does before its
\* lock call touches no shared state
SessCall(t, op) ==
    /\ sess[t].pc = "idle"
    /\ sess' = [sess EXCEPT ![t] = [op |-> op, pc |-> "acquire", saw |-> FALSE]]
    /\ UNCHANGED <<rw, dirty, otherThanLock>>

\* session.Lock() returns when there is no writer and no reader,
\* session.RLock() when there is no writer
SessAcquire(t) ==
    /\ sess[t].pc = "acquire"
    /\ LET kind == LockKind(rw.impl, sess[t].op)
       IN \/ /\ kind = "Lock"
             /\ rw.writer = 0 /\ rw.readers = {}
             /\ rw' = [rw EXCEPT !.writer = t]
          \/ /\ kind = "RLock"
             /\ rw.writer = 0
             /\ rw' = [rw EXCEPT !.readers = @ \cup {t}]
          \/ /\ kind = "none"
             /\ rw' = rw
    /\ sess' = [sess EXCEPT ![t].pc = "body"]
    /\ UNCHANGED <<dirty, otherThanLock>>

\* a setter starts to modify its store (a map assignment, the re-sort of a
\* path list, the move of a list element)
SessWriteBegin(t) ==
    /\ sess[t].pc = "body"
    /\ sess[t].op \in Setters
    /\ dirty' = [dirty EXCEPT ![StoreOf(sess[t].op)] = @ + 1]
    /\ sess' = [sess EXCEPT ![t].pc = "modifying"]
    /\ UNCHANGED <<rw, otherThanLock>>

\* the modification is complete
SessWriteEnd(t) ==
    /\ sess[t].pc = "modifying"
    /\ dirty' = [dirty EXCEPT ![StoreOf(sess[t].op)] = @ - 1]
    /\ sess' = [sess EXCEPT ![t].pc = "release"]
    /\ UNCHANGED <<rw, otherThanLock>>

\* a getter reads its store; saw records whether a modification was under way
SessRead(t) ==
    /\ sess[t].pc = "body"
    /\ sess[t].op \in Getters
    /\ sess' = [sess EXCEPT ![t].pc = "release",
                            ![t].saw = (dirty[StoreOf(sess[t].op)] > 0)]
    /\ UNCHANGED <<rw, dirty, otherThanLock>>

\* session.Unlock() / the deferred session.Unlock() or session.RUnlock()
SessRelease(t) ==
    /\ sess[t].pc = "release"
    /\ LET kind == LockKind(rw.impl, sess[t].op)
       IN rw' = IF kind = "Lock" THEN [rw EXCEPT !.writer = 0]
                ELSE IF kind = "RLock" THEN [rw EXCEPT !.readers = @ \ {t}]
                ELSE rw
    /\ sess' = [sess EXCEPT ![t].pc = "idle"]
    /\ UNCHANGED <<dirty, otherThanLock>>

\* ------------------------------------------- the session's md5cred cache

\* the key abs.Host+":"+abs.Path of a protection space; the empty string is
\* the empty sequence
SpaceKey(abs) == <<abs.host, ":">> \o abs.path
EmptyString == <<>>

RefRoot == [bad |-> FALSE, host |-> "", path |-> <<"/">>]
RefH2 == [bad |-> FALSE, host |-> "h2", path |-> <<"/">>]
RefBad == [bad |-> TRUE, host |-> "", path |-> <<>>]
DigestRefs == {RefRoot, RefA, RefH2, RefBad}
Hashes == {"H1", "H2"}

\* spaces := make([]string, n): n empty strings
MakeStrings(n) == [i \in 1..n |-> EmptyString]

\* the loop over domain: one appended key per entry that url.Parse accepts
RECURSIVE AppendSpaces(_, _, _)
AppendSpaces(spaces, host, domain) ==
    IF domain = <<>> THEN spaces
    ELSE LET ref == Head(domain)
             spaces1 == IF ref.bad THEN spaces
                        ELSE Append(spaces, SpaceKey(ResolveReference(host, ref)))
         IN AppendSpaces(spaces1, host, Tail(domain))

\* session.SetDigestCredentials(uri, domain, hash): the new md5cred
SetDigestCredentials(m, host, domain, hash) ==
    LET domain1 == IF Len(domain) = 0 THEN <<RefRoot>> ELSE domain
        spaces == AppendSpaces(MakeStrings(Len(domain1)), host, domain1)
        keys == {spaces[i] : i \in 1..Len(spaces)}
    IN [k \in (DOMAIN m) \cup keys |-> IF k \in keys THEN hash ELSE m[k]]

\* session.DigestCredentials(uri): the zero string when the key is absent
DigestCredentials(m, host) ==
    LET k == <<host, ":", "/">>
    IN IF k \in DOMAIN m THEN m[k] ELSE ""

NoDigestCall == [op |-> "none", host |-> "", domain |-> <<>>, hash |-> "",
                 before |-> <<>>, res |-> ""]

NewDigest ==
    /\ md5cred = <<>>
    /\ dc = NoDigestCall

SetDigestCredentialsCall(host, domain, hash) ==
    /\ md5cred' = SetDigestCredentials(md5cred, host, domain, hash)
    /\ dc' = [op |-> "Set", host |-> host, domain |-> domain, hash |-> hash,
              before |-> md5cred, res |-> ""]
    /\ UNCHANGED otherThanDigest

DigestCredentialsCall(host) ==
    /\ dc' = [op |-> "Get", host |-> host, domain |-> <<>>, hash |-> "",
              before |-> md5cred, res |-> DigestCredentials(md5cred, host)]
    /\ UNCHANGED <<md5cred, otherThanDigest>>

\* ------------------------------------------------------- parseChallenge

\* item types of the lexer (lexrec.ItemError, lexrec.ItemEOF and the
\* constants of lexauth.go)
ItemError == "ERROR"
ItemEOF == "EOF"
ItemIgnore == "ignore"
ItemBasic == "Basic"
ItemDigest == "Digest"
ItemRealm == "realm"
ItemDomain == "domain"
ItemNonce == "nonce"
ItemOpaque == "opaque"
ItemStale == "stale"
ItemAlgorithm == "algorithm"
ItemQop == "qop"
ItemAuthParam == "auth-param"

\* strings are sequences of one-character strings
StrTrue == <<"t", "r", "u", "e">>

\* item.Value[1 : len(item.Value)-1]
Unquote(v) == SubSeq(v, 2, Len(v) - 1)

\* strings.Split(s, sep) for a one-character separator out of seps
RECURSIVE SplitOn(_, _)
SplitOn(s, seps) ==
    IF s = <<>> THEN << <<>> >>
    ELSE LET rest == SplitOn(Tail(s), seps)
         IN IF Head(s) \in seps THEN << <<>> >> \o rest
            ELSE << <<Head(s)>> \o Head(rest) >> \o Tail(rest)

NonEmpty(f) == f /= <<>>

\* strings.Fields(s): the maximal runs of non-space characters
Fields(s) == SelectSeq(SplitOn(s, {" ", "\t", "\r", "\n"}), NonEmpty)

\* &Challenge{Scheme: scheme}
NewChallenge(scheme) ==
    [Scheme |-> scheme, Realm |-> <<>>, Domain |-> <<>>, Nonce |-> <<>>,
     Opaque |-> <<>>, Stale |-> FALSE, Algorithm |-> <<>>, Qop |-> <<>>]

\* mutant of CurrentIndex: parameters go to the first challenge
CurrentIndexFirst(parsed) == IF Len(parsed) = 0 THEN 0 ELSE 1

\* i := len(parsed) - 1, as a 1-based index (0: no challenge yet)
CurrentIndex(parsed) == Len(parsed)

\* one pass of the loop of parseChallenge over the item NextItem returned
ParseItem(p, item) ==
    LET i == CurrentIndex(p.parsed)
        SetField(f, v) == IF i >= 1 THEN [p EXCEPT !.parsed[i][f] = v] ELSE p
    IN CASE item.type = ItemEOF -> [p EXCEPT !.done = TRUE]
         [] item.type = ItemError -> [p EXCEPT !.done = TRUE, !.err = "error at position"]
         [] item.type \in {ItemDigest, ItemBasic} ->
                [p EXCEPT !.parsed = Append(@, NewChallenge(item.value))]
         [] item.type = ItemRealm -> SetField("Realm", Unquote(item.value))
         [] item.type = ItemDomain -> SetField("Domain", Fields(Unquote(item.value)))
         [] item.type = ItemNonce -> SetField("Nonce", Unquote(item.value))
         [] item.type = ItemOpaque -> SetField("Opaque", Unquote(item.value))
         [] item.type = ItemStale -> SetField("Stale", item.value = StrTrue)
         [] item.type = ItemAlgorithm -> SetField("Algorithm", item.value)
         [] item.type = ItemQop -> SetField("Qop", SplitOn(Unquote(item.value), {","}))
         [] item.type = ItemAuthParam -> p
         [] OTHER -> [p EXCEPT !.done = TRUE, !.err = "unhandled item type"]

NewParse ==
    /\ parse = [parsed |-> <<>>, err |-> "", done |-> FALSE]
    /\ fed = <<>>

\* the items a lexer run can deliver: scheme items carry the scheme as
\* written, quoted parameters carry their quotes
QuotedR == <<"\"", "r", "\"">>
QuotedAB == <<"\"", "a", ",", "b", "\"">>
QuotedUris == <<"\"", "/", "a", " ", "/", "b", "\"">>
ParseItems ==
    {[type |-> ItemBasic, value |-> <<"B", "a", "s", "i", "c">>],
     [type |-> ItemDigest, value |-> <<"D", "i", "g", "e", "s", "t">>],
     [type |-> ItemRealm, value |-> QuotedR],
     [type |-> ItemRealm, value |-> QuotedAB],
     [type |-> ItemDomain, value |-> QuotedUris],
     [type |-> ItemNonce, value |-> QuotedR],
     [type |-> ItemOpaque, value |-> QuotedR],
     [type |-> ItemStale, value |-> StrTrue],
     [type |-> ItemStale, value |-> <<"f", "a", "l", "s", "e">>],
     [type |-> ItemAlgorithm, value |-> <<"M", "D", "5">>],
     [type |-> ItemQop, value |-> QuotedAB],
     [type |-> ItemAuthParam, value |-> QuotedR],
     [type |-> ItemIgnore, value |-> <<>>],
     [type |-> ItemError, value |-> <<"e">>],
     [type |-> ItemEOF, value |-> <<>>]}

\* l.NextItem() hands parseChallenge the next item of the stream
ParseNext(item) ==
    /\ ~parse.done
    /\ Len(fed) < MaxItems
    /\ parse' = ParseItem(parse, item)
    /\ fed' = Append(fed, item)
    /\ UNCHANGED otherThanParse

\* ------------------------------------------------------------ the lexer

EOF == "EOF"
Whitespace == {" ", "\r", "\n", "\t"}
Separators ==
    {"(", ")", "<", ">", "@", ",", ";", ":", "\\", "\"", "/", "[", "]", "?", "=",
     "{", "}", " ", "\t"}
\* separators, whitespace and control characters (no control character
\* other than whitespace occurs in the inputs)
NonToken == Separators \cup Whitespace

\* l.Peek(): the next character, EOF at the end of the input
Peek(l) == IF l.pos < Len(l.input) THEN l.input[l.pos + 1] ELSE EOF

\* l.Next(): consumes one character
LexNext(l) == IF l.pos < Len(l.input) THEN [l EXCEPT !.pos = @ + 1] ELSE l

\* the end of the run of characters from pos on that are in set (in = TRUE)
\* or not in set (in = FALSE)
RECURSIVE RunEnd(_, _, _, _)
RunEnd(input, pos, set, in) ==
    IF pos < Len(input) /\ ((input[pos + 1] \in set) <=> in)
    THEN RunEnd(input, pos + 1, set, in)
    ELSE pos

\* l.AcceptRun(valid) and l.ExceptRun(invalid); the call reports whether
\* the position moved
AcceptRun(l, valid) == [l EXCEPT !.pos = RunEnd(l.input, l.pos, valid, TRUE)]
ExceptRun(l, invalid) == [l EXCEPT !.pos = RunEnd(l.input, l.pos, invalid, FALSE)]
Moved(l, l1) == l1.pos > l.pos

\* l.Skip(), l.Bytes(), l.Emit(t), l.Errorf(...)
Skip(l) == [l EXCEPT !.start = l.pos]
Bytes(l) == SubSeq(l.input, l.start + 1, l.pos)
Emit(l, t) == [l EXCEPT !.out = Append(@, [type |-> t, value |-> Bytes(l)]),
                        !.start = l.pos]
Errorf(l) == [l EXCEPT !.out = Append(@, [type |-> ItemError, value |-> <<"e">>])]

\* lexrec.Quote(l, t, emit): at a double quote it accepts the quoted string
\* up to the closing quote and, if emit, emits it with its quotes
Quote(l, t, emit) ==
    IF Peek(l) /= "\"" THEN [l |-> l, ok |-> FALSE]
    ELSE LET close == RunEnd(l.input, l.pos + 1, {"\""}, FALSE)
         IN IF close >= Len(l.input)
            THEN [l |-> [l EXCEPT !.pos = Len(l.input)], ok |-> FALSE]
            ELSE LET l1 == [l EXCEPT !.pos = close + 1]
                 IN [l |-> IF emit THEN Emit(l1, t) ELSE l1, ok |-> TRUE]

emitQuotedToken(l, t) ==
    IF Peek(l) /= "=" THEN Errorf(l)
    ELSE LET q == Quote(Skip(LexNext(l)), t, TRUE)
         IN IF q.ok THEN q.l ELSE Errorf(q.l)

emitToken(l, t) ==
    IF Peek(l) /= "=" THEN Errorf(l)
    ELSE LET l1 == Skip(LexNext(l))
             l2 == ExceptRun(l1, NonToken)
         IN IF ~Moved(l1, l2) THEN Errorf(l2) ELSE Emit(l2, t)

\* l.Emit(t) sends l.Bytes(), the token as it was written, not the
\* lower-cased s
emitBoolToken(l, t) ==
    IF Peek(l) /= "=" THEN Errorf(l)
    ELSE LET l1 == Skip(LexNext(l))
             l2 == ExceptRun(l1, NonToken)
             s == ToLower(Bytes(l2))
         IN IF ~Moved(l1, l2) THEN Errorf(l2)
            ELSE IF s = StrTrue \/ s = <<"f", "a", "l", "s", "e">>
            THEN Emit(l2, t)
            ELSE Errorf(l2)

\* the value of <name>=<value>, skipped: a quoted string or a token
SkipValue(l) ==
    IF Peek(l) = "\""
    THEN LET q == Quote(l, ItemAuthParam, FALSE)
         IN IF q.ok THEN Skip(q.l) ELSE q.l
    ELSE LET l1 == ExceptRun(l, NonToken)
         IN IF Moved(l, l1) THEN Skip(l1) ELSE Errorf(l1)

ignoreToken(l) ==
    LET l1 == Skip(l)
    IN IF Peek(l1) /= "=" THEN Errorf(l1)
       ELSE SkipValue(Skip(LexNext(l1)))

advanceParam(l) ==
    IF Peek(l) = EOF THEN [l |-> l, ok |-> FALSE]
    ELSE LET l1 == AcceptRun(l, Whitespace)
             l2 == LexNext(l1)
         IN IF Peek(l1) /= "," THEN [l |-> Errorf(l2), ok |-> FALSE]
            ELSE [l |-> Skip(AcceptRun(l2, Whitespace)), ok |-> TRUE]

StrRealm == <<"r", "e", "a", "l", "m">>
StrStale == <<"s", "t", "a", "l", "e">>

RECURSIVE emitBasicParams(_)
emitBasicParams(l) ==
    LET l1 == ExceptRun(l, NonToken)
        Continue(x) == LET a == advanceParam(x)
                       IN IF a.ok THEN emitBasicParams(a.l) ELSE a.l
    IN IF ~Moved(l, l1) THEN Errorf(l1)
       ELSE IF Bytes(l1) = StrRealm THEN Continue(emitQuotedToken(l1, ItemRealm))
       ELSE IF Peek(l1) \in {",", EOF} \cup Whitespace THEN l1
       ELSE Continue(ignoreToken(l1))

RECURSIVE emitDigestParams(_)
emitDigestParams(l) ==
    LET l1 == ExceptRun(l, NonToken)
        name == ToLower(Bytes(l1))
        Continue(x) == LET a == advanceParam(x)
                       IN IF a.ok THEN emitDigestParams(a.l) ELSE a.l
    IN IF ~Moved(l, l1) THEN Errorf(l1)
       ELSE IF name = StrRealm THEN Continue(emitQuotedToken(l1, ItemRealm))
       ELSE IF name = <<"d", "o", "m", "a", "i", "n">>
       THEN Continue(emitQuotedToken(l1, ItemDomain))
       ELSE IF name = <<"n", "o", "n", "c", "e">>
       THEN Continue(emitQuotedToken(l1, ItemNonce))
       ELSE IF name = <<"o", "p", "a", "q", "u", "e">>
       THEN Continue(emitQuotedToken(l1, ItemOpaque))
       ELSE IF name = StrStale THEN Continue(emitBoolToken(l1, ItemStale))
       ELSE IF name = <<"a", "l", "g", "o", "r", "i", "t", "h", "m">>
       THEN Continue(emitToken(l1, ItemAlgorithm))
       ELSE IF name = <<"q", "o", "p">> THEN Continue(emitQuotedToken(l1, ItemQop))
       ELSE IF Peek(l1) \in {",", EOF} \cup Whitespace THEN l1
       ELSE Continue(ignoreToken(l1))

\* the loop of advanceChallenge
RECURSIVE advanceChallengeLoop(_)
advanceChallengeLoop(l) ==
    LET l1 == ExceptRun(l, NonToken)
        r == Peek(l1)
    IN IF ~Moved(l, l1) THEN l1
       ELSE IF r = "="
       THEN LET a == advanceParam(SkipValue(Skip(LexNext(l1))))
            IN IF a.ok THEN advanceChallengeLoop(a.l) ELSE a.l
       ELSE IF r \in Whitespace THEN l1
       ELSE Errorf(l1)

advanceChallenge(l) ==
    LET l1 == AcceptRun(l, Whitespace)
    IN advanceChallengeLoop(IF Moved(l, l1) THEN Skip(l1) ELSE l1)

\* the deferred l.Emit(lexrec.ItemEOF) of emitWWWAuthenticate
Return(l) == [Emit(l, ItemEOF) EXCEPT !.pc = "done"]

\* emitWWWAuthenticate before its loop
LexPrelude(l) ==
    IF Peek(l) = EOF THEN Return(Errorf(l))
    ELSE LET l1 == AcceptRun(l, Whitespace)
             l2 == IF Moved(l, l1) THEN Skip(l1) ELSE l1
             l3 == ExceptRun(l2, NonToken)
         IN IF ~Moved(l2, l3) THEN Return(Errorf(l3))
            ELSE [l3 EXCEPT !.pc = "loop"]

\* the parameters of a scheme that has just been emitted
AfterScheme(l, basic) ==
    LET l1 == AcceptRun(l, Whitespace)
    IN IF ~Moved(l, l1) THEN Return(Errorf(l1))
       ELSE IF basic THEN emitBasicParams(Skip(l1))
       ELSE emitDigestParams(Skip(l1))

\* one pass of the loop of emitWWWAuthenticate
SchemeLoop(l) ==
    LET scheme == ToLower(Bytes(l))
    IN IF Peek(l) = EOF THEN Return(l)
       ELSE IF scheme = <<"b", "a", "s", "i", "c">> THEN AfterScheme(Emit(l, ItemBasic), TRUE)
       ELSE IF scheme = <<"d", "i", "g", "e", "s", "t">>
       THEN AfterScheme(Emit(l, ItemDigest), FALSE)
       ELSE advanceChallenge(l)

NewLex(header) ==
    lex = [input |-> header, start |-> 0, pos |-> 0, out |-> <<>>, pc |-> "start",
           looping |-> FALSE]

\* the pieces the header values are put together from
Fragments ==
    {<<"B", "a", "s", "i", "c">>, <<"D", "i", "g", "e", "s", "t">>,
     <<"b", "a", "s", "i", "c">>,
     <<" ">>, <<",">>, <<"=">>, <<"(">>, <<"x">>, QuotedR,
     <<"r", "e", "a", "l", "m", "=">>, <<"s", "t", "a", "l", "e", "=">>,
     <<"T", "R", "U", "E">>, <<"f", "a", "l", "s", "e">>}

RECURSIVE Concat(_)
Concat(ss) == IF ss = <<>> THEN <<>> ELSE Head(ss) \o Concat(Tail(ss))

Headers == {Concat(ss) : ss \in SeqsUpTo(Fragments, MaxFragments)}

\* lexrec.NewLexerRun starts emitWWWAuthenticate in its own goroutine
LexStart ==
    /\ lex.pc = "start"
    /\ lex' = LexPrelude(lex)
    /\ UNCHANGED <<parseVars, otherThanLex>>

\* one pass of the scheme loop; a pass that leaves the lexer as it was is
\* repeated for ever
LexLoop ==
    /\ lex.pc = "loop"
    /\ ~lex.looping
    /\ lex' = IF SchemeLoop(lex) = lex THEN [lex EXCEPT !.looping = TRUE]
              ELSE SchemeLoop(lex)
    /\ UNCHANGED <<parseVars, otherThanLex>>

\* parseChallenge takes the next emitted item
ParseLexItem ==
    /\ ~parse.done
    /\ Len(fed) < Len(lex.out)
    /\ parse' = ParseItem(parse, lex.out[Len(fed) + 1])
    /\ fed' = Append(fed, lex.out[Len(fed) + 1])
    /\ UNCHANGED <<lexVars, otherThanLex>>

\* ------------------------------------------------------ Challenge.Digest

\* fmt.Sprintf("%x", md5 of the bytes written): a token over its input
MD5(x) == <<"md5", x>>

\* session.DigestCredentials(req.URL) with the absent value as <<>>
CachedHA1(m, host) ==
    IF <<host, ":", "/">> \in DOMAIN m THEN m[<<host, ":", "/">>] ELSE <<>>

\* mutant of HeaderFields: algorithm is written after response
HeaderFieldsAlgorithmLate(username, ch, uri, qop, nc, cn1, digest) ==
    << [name |-> "username", value |-> username],
       [name |-> "realm", value |-> ch.Realm],
       [name |-> "nonce", value |-> ch.Nonce],
       [name |-> "uri", value |-> uri] >>
    \o (IF qop /= "" THEN << [name |-> "qop", value |-> qop],
                             [name |-> "nc", value |-> nc],
                             [name |-> "cnonce", value |-> cn1] >> ELSE <<>>)
    \o << [name |-> "response", value |-> digest] >>
    \o (IF ch.Algorithm /= "" THEN << [name |-> "algorithm", value |-> ch.Algorithm] >>
        ELSE <<>>)
    \o (IF ch.Opaque /= "" THEN << [name |-> "opaque", value |-> ch.Opaque] >> ELSE <<>>)

\* the Authorization header as buf.WriteString builds it, field by field
HeaderFields(username, ch, uri, qop, nc, cn1, digest) ==
    << [name |-> "username", value |-> username],
       [name |-> "realm", value |-> ch.Realm],
       [name |-> "nonce", value |-> ch.Nonce],
       [name |-> "uri", value |-> uri] >>
    \o (IF qop /= "" THEN << [name |-> "qop", value |-> qop],
                             [name |-> "nc", value |-> nc],
                             [name |-> "cnonce", value |-> cn1] >> ELSE <<>>)
    \o (IF ch.Algorithm /= "" THEN << [name |-> "algorithm", value |-> ch.Algorithm] >>
        ELSE <<>>)
    \o << [name |-> "response", value |-> digest] >>
    \o (IF ch.Opaque /= "" THEN << [name |-> "opaque", value |-> ch.Opaque] >> ELSE <<>>)

\* session.CNonce() when rand.Read succeeds: twelve fresh random bytes in
\* base64, a value of its own for the k-th call
CNonce(k) == "c" \o ToString(k)

\* Challenge.Digest(session, req) for a request without body; s is the
\* session: credentials v, counter m/ll/cap, md5cred, md5sess; cn1 is what
\* session.CNonce() returns. The result carries the session as the call
\* leaves it.
ChallengeDigest(ch, s, host, path, randFails, cn1) ==
    LET l == Login(s.v, host, path, 1)
        qop == SelectQop(ch.Qop, "")
        c == IF qop /= "" THEN NonceCounterNext(s.m, s.ll, s.cap, ch.Nonce)
             ELSE [m |-> s.m, ll |-> s.ll, ret |-> 0, evicted |-> NoNonce]
        nc == IF qop /= "" THEN Sprintf08x(c.ret) ELSE <<>>
        s1 == [s EXCEPT !.m = c.m, !.ll = c.ll]
        cached == CachedHA1(s.md5cred, host)
        ha1 == IF cached = <<>>
               THEN MD5(<<l.username, ":", ch.Realm, ":", l.password>>)
               ELSE cached
        s2 == IF cached = <<>>
              THEN [s1 EXCEPT !.md5cred = SetDigestCredentials(@, host, ch.Domain, ha1)]
              ELSE s1
        sessHash == IF s.md5sess[host] = <<>>
                    THEN MD5(<<ha1, ":", ch.Nonce, ":", cn1>>)
                    ELSE s.md5sess[host]
        s3 == IF ch.Algorithm = "MD5-sess" /\ s.md5sess[host] = <<>>
              THEN [s2 EXCEPT !.md5sess[host] = sessHash]
              ELSE s2
        secret == IF ch.Algorithm = "MD5-sess" THEN sessHash ELSE ha1
        uri == RequestURI(path)
        ha2 == IF qop = "auth-int" THEN MD5(<<"GET", ":", uri, ":", MD5(<<>>)>>)
               ELSE MD5(<<"GET", ":", uri>>)
        digest == IF qop /= ""
                  THEN MD5(<<secret, ":", ch.Nonce, ":", nc, ":", cn1, ":", qop, ":", ha2>>)
                  ELSE MD5(<<secret, ":", ch.Nonce, ":", ha2>>)
        Fail(e, sx) == [err |-> e, auth |-> <<>>, ha1 |-> <<>>, nc |-> <<>>, s |-> sx,
                        secret |-> <<>>, cnonce |-> ""]
    IN IF l.err /= "" THEN Fail(l.err, s)
       ELSE IF randFails THEN Fail("rand.Read", s)
       ELSE IF ch.Algorithm \notin {"", "MD5", "MD5-sess"}
       THEN Fail("unhandled algorithm", s1)
       ELSE [err |-> "", auth |-> HeaderFields(l.username, ch, uri, qop, nc, cn1, digest),
             ha1 |-> ha1, nc |-> nc, s |-> s3, secret |-> secret, cnonce |-> cn1]

\* the credentials and the challenges the builder is run with
CredA == [Domain |-> <<"h", "1">>, Path |-> <<"/", "a">>, Username |-> "u3", Password |-> "p3"]
BuildStores == {<<CredHostRoot>>, <<CredA, CredHostRoot>>, <<CredA>>}
BuildChallenges ==
    [Realm : {"r"}, Domain : {<<>>}, Nonce : {"n1"}, Opaque : {"", "o"},
     Algorithm : {"", "MD5-sess"},
     Qop : {<<>>, <<"auth">>, <<"auth-int", "auth">>, <<"x">>}]
    \cup [Realm : {"s"}, Domain : {<<>>, <<RefA>>}, Nonce : {"n1"}, Opaque : {""},
          Algorithm : {"MD5"}, Qop : {<<"auth">>}]
    \cup [Realm : {"r"}, Domain : {<<>>}, Nonce : {"n1"}, Opaque : {""},
          Algorithm : {"SHA-256"}, Qop : {<<>>, <<"auth">>}]
    \cup [Realm : {"r"}, Domain : {<<>>}, Nonce : {"n2"}, Opaque : {""},
          Algorithm : {"MD5-sess"}, Qop : {<<"auth">>}]
BuildPaths == {<<"/">>, <<"/", "a">>}

NewBuild ==
    /\ md5sess = [h \in Hosts |-> <<>>]
    /\ bd = [n |-> 0, ch |-> <<>>, host |-> "", path |-> <<>>, before |-> <<>>,
             ret |-> <<>>]

TheSession ==
    [v |-> creds, m |-> ncM, ll |-> ncLL, cap |-> ncCap, md5cred |-> md5cred,
     md5sess |-> md5sess]

\* challenge.Digest(session, req) is called and returns
DigestCall(ch, host, path, randFails) ==
    /\ bd.n < MaxBuilds
    /\ \E r \in {ChallengeDigest(ch, TheSession, host, path, randFails, CNonce(bd.n + 1))} :
          /\ bd' = [n |-> bd.n + 1, ch |-> ch, host |-> host, path |-> path,
                    before |-> TheSession,
                    ret |-> [err |-> r.err, auth |-> r.auth, ha1 |-> r.ha1, nc |-> r.nc,
                             secret |-> r.secret, cnonce |-> r.cnonce]]
          /\ ncM' = r.s.m
          /\ ncLL' = r.s.ll
          /\ md5cred' = r.s.md5cred
          /\ md5sess' = r.s.md5sess
    /\ UNCHANGED <<ncCap, mutex, cpc, cnonce, cn, cret, issueLog, kth, epoch, dc>>
    /\ UNCHANGED <<authVars, spoolVars, dupVars, authDoVars, doVars, credVars, lockVars,
                   parseVars, lexVars>>

InitCounter ==
    /\ \E cap \in 0..MaxCapArg : NewCounter(cap)
    /\ NewAuth
    /\ NewSpools(-1)
    /\ NewDup
    /\ NewAuthDo(<<>>)
    /\ NewDo
    /\ NewCred
    /\ NewLock("part_000")
    /\ NewDigest
    /\ NewParse
    /\ NewLex(<<>>)
    /\ NewBuild

\* session.Lock() at the head of session.Counter
CounterLock(t, nonce) ==
    /\ cpc[t] = "idle"
    /\ mutex = 0
    /\ Len(issueLog) + Cardinality({u \in Threads : cpc[u] = "next"}) < MaxCalls
    /\ mutex' = t
    /\ cpc' = [cpc EXCEPT ![t] = "next"]
    /\ cnonce' = [cnonce EXCEPT ![t] = nonce]
    /\ UNCHANGED <<ncM, ncLL, ncCap, cn, cret, issueLog, kth, epoch>>
    /\ UNCHANGED otherThanCounter

\* n := session.counter.Next(nonce)
CounterNext(t) ==
    /\ cpc[t] = "next"
    /\ mutex = t
    /\ LET r == NonceCounterNext(ncM, ncLL, ncCap, cnonce[t])
           fresh == cnonce[t] \notin ncM
           k == IF fresh THEN 1 ELSE kth[cnonce[t]] + 1
           ep == IF fresh THEN epoch[cnonce[t]] + 1 ELSE epoch[cnonce[t]]
       IN /\ ncM' = r.m
          /\ ncLL' = r.ll
          /\ cn' = [cn EXCEPT ![t] = r.ret]
          /\ kth' = [x \in Nonces |->
                        IF x = cnonce[t] THEN k
                        ELSE IF x = r.evicted THEN 0
                        ELSE kth[x]]
          /\ epoch' = [epoch EXCEPT ![cnonce[t]] = ep]
          /\ issueLog' = Append(issueLog,
                [nonce |-> cnonce[t], n |-> r.ret, k |-> k, epoch |-> ep, thread |-> t])
    /\ cpc' = [cpc EXCEPT ![t] = "unlock"]
    /\ UNCHANGED <<ncCap, mutex, cnonce, cret>>
    /\ UNCHANGED otherThanCounter

\* session.Unlock()
CounterUnlock(t) ==
    /\ cpc[t] = "unlock"
    /\ mutex = t
    /\ mutex' = 0
    /\ cpc' = [cpc EXCEPT ![t] = "format"]
    /\ UNCHANGED <<ncM, ncLL, ncCap, cnonce, cn, cret, issueLog, kth, epoch>>
    /\ UNCHANGED otherThanCounter

\* return fmt.Sprintf("%08x", n)
CounterReturn(t) ==
    /\ cpc[t] = "format"
    /\ cret' = [cret EXCEPT ![t] = Sprintf08x(cn[t])]
    /\ cpc' = [cpc EXCEPT ![t] = "idle"]
    /\ UNCHANGED <<ncM, ncLL, ncCap, mutex, cnonce, cn, issueLog, kth, epoch>>
    /\ UNCHANGED otherThanCounter

NextCounter ==
    \/ \E t \in Threads, nonce \in Nonces : CounterLock(t, nonce)
    \/ \E t \in Threads : CounterNext(t)
    \/ \E t \in Threads : CounterUnlock(t)
    \/ \E t \in Threads : CounterReturn(t)

SpecCounter == InitCounter /\ [][NextCounter]_vars

InitAuth ==
    /\ NewCounter(1)
    /\ NewAuth
    /\ NewSpools(-1)
    /\ NewDup
    /\ NewAuthDo(<<>>)
    /\ NewDo
    /\ NewCred
    /\ NewLock("part_000")
    /\ NewDigest
    /\ NewParse
    /\ NewLex(<<>>)
    /\ NewBuild

NextAuth ==
    \/ \E host \in Hosts, path \in SetPaths, auth \in Auths : Set(host, path, auth)
    \/ \E host \in Hosts, path \in GetPaths : Get(host, path)

SpecAuth == InitAuth /\ [][NextAuth]_vars

\* the authorization cache as the session's methods use it
NextSession ==
    \/ \E host \in Hosts, domain \in SessionDomains, auth \in Auths :
          SetAuthorizationCall(host, domain, auth)
    \/ \E host \in Hosts, path \in RequestPaths : AuthorizationCall(host, path)

SpecSession == InitAuth /\ [][NextSession]_vars

InitSpool ==
    /\ NewCounter(1)
    /\ NewAuth
    /\ \E limit \in (-1)..MaxLimit : NewSpools(limit)
    /\ NewDup
    /\ NewAuthDo(<<>>)
    /\ NewDo
    /\ NewCred
    /\ NewLock("part_000")
    /\ NewDigest
    /\ NewParse
    /\ NewLex(<<>>)
    /\ NewBuild

\* one spool, used directly
NextSpool ==
    \/ \E len \in 0..MaxChunk, fk \in FaultKinds, k \in 0..MaxChunk : Write(1, len, fk, k)
    \/ \E fk \in FaultKinds : Close(1, fk)
    \/ \E fk \in FaultKinds : ReadCloser(1, fk)
    \/ \E k \in 1..MaxChunk : Read(1, k)
    \/ CloseReader(1)

SpecSpool == InitSpool /\ [][NextSpool]_vars

InitDup ==
    /\ NewCounter(1)
    /\ NewAuth
    /\ \E limit \in (-1)..MaxLimit : NewSpools(limit)
    /\ NewDup
    /\ NewAuthDo(<<>>)
    /\ NewDo
    /\ NewCred
    /\ NewLock("part_000")
    /\ NewDigest
    /\ NewParse
    /\ NewLex(<<>>)
    /\ NewBuild

NextDup ==
    \/ \E n \in 0..MaxClones, len \in 0..MaxTotal : DupCall(n, len)
    \/ \E k \in 1..MaxChunk, fails \in BOOLEAN : DupRead(k, fails)
    \/ \E fk \in FaultKinds, k \in 0..MaxChunk : DupWrite(fk, k)
    \/ \E fk \in FaultKinds : DupClose(fk)
    \/ \E fk \in FaultKinds : DupCloseCleanup(fk)
    \/ \E fk \in FaultKinds : DupReadCloser(fk)
    \/ DupReturn
    \/ \E i \in Spools, k \in 1..MaxChunk : CloneRead(i, k)
    \/ \E i \in Spools : CloneClose(i)

SpecDup == InitDup /\ [][NextDup]_vars

InitAuthDo ==
    /\ NewCounter(1)
    /\ NewAuth
    /\ NewSpools(-1)
    /\ NewDup
    /\ \E v \in CredStores : NewAuthDo(v)
    /\ NewDo
    /\ NewCred
    /\ NewLock("part_000")
    /\ NewDigest
    /\ NewParse
    /\ NewLex(<<>>)
    /\ NewBuild

\* requests without a body, one AuthDo call at a time on one session
NextAuthDo ==
    \/ \E host \in {"h1"}, path \in RequestPaths, nilSession \in BOOLEAN :
          ADCall(host, path, nilSession, FALSE, FALSE)
    \/ \E o \in Outcomes : ADSend(o)
    \/ \E randFails \in BOOLEAN : ADChallenge(randFails, FALSE, FALSE)
    \/ \E o \in RetryOutcomes : ADRetry(o)

SpecAuthDo == InitAuthDo /\ [][NextAuthDo]_vars

\* requests with and without a body to one path; a duplication may fail
NextAuthBody ==
    \/ \E nilSession \in BOOLEAN, hasBody \in BOOLEAN, dupFails \in BOOLEAN :
          ADCall("h1", <<"/", "a">>, nilSession, hasBody, dupFails)
    \/ \E o \in BodyOutcomes : ADSend(o)
    \/ \E randFails \in BOOLEAN, dupFails \in BOOLEAN, readFails \in BOOLEAN :
          ADChallenge(randFails, dupFails, readFails)
    \/ \E o \in RetryOutcomes : ADRetry(o)

SpecAuthBody == InitAuthDo /\ [][NextAuthBody]_vars

InitDo ==
    /\ NewCounter(1)
    /\ NewAuth
    /\ NewSpools(-1)
    /\ NewDup
    /\ NewAuthDo(<<>>)
    /\ NewDo
    /\ NewCred
    /\ NewLock("part_000")
    /\ NewDigest
    /\ NewParse
    /\ NewLex(<<>>)
    /\ NewBuild

NextDo ==
    \/ \E timeout \in 0..MaxTimeout : DoCall(timeout)
    \/ DoTimer
    \/ \E result \in TransportResults : DoTransport(result)
    \/ DoSelectErr
    \/ DoRecvRsp
    \/ DoSelectTimeout
    \/ DoSelectRsp
    \/ DoCancel

SpecDo == InitDo /\ [][NextDo]_vars

\* the Go scheduler runs every runnable goroutine, a channel operation that
\* has a partner completes, the transport call returns and an armed timer
\* fires; when Do is called again is up to the caller
SpecDoLive ==
    /\ InitDo
    /\ [][NextDo]_vars
    /\ WF_vars(DoTimer)
    /\ WF_vars(\E result \in TransportResults : DoTransport(result))
    /\ WF_vars(DoSelectErr)
    /\ WF_vars(DoRecvRsp)
    /\ WF_vars(DoSelectTimeout)
    /\ WF_vars(DoSelectRsp)
    /\ WF_vars(DoCancel)

InitCred ==
    /\ NewCounter(1)
    /\ NewAuth
    /\ NewSpools(-1)
    /\ NewDup
    /\ NewAuthDo(<<>>)
    /\ NewDo
    /\ NewCred
    /\ NewLock("part_000")
    /\ NewDigest
    /\ NewParse
    /\ NewLex(<<>>)
    /\ NewBuild

\* a store is loaded and then asked; the match functions are called on
\* credentials and cache entries of their own
NextCred ==
    \/ /\ cr.op = "none"
       /\ \E v \in Documents : NewCredentialsJSONCall(v)
    \/ \E host \in LoginHosts, path \in RequestPaths, realm \in Realms :
          LoginCall(host, path, realm)
    \/ /\ cr.op = "none"
       /\ \E domain \in DomainStrings, host \in HostStrings : DomainMatchCall(domain, host)
    \/ /\ cr.op = "none"
       /\ \E cpath \in PathStrings, path \in RequestPathStrings : PathMatchCall(cpath, path)
    \/ /\ cr.op = "none"
       /\ \E cpath \in PathStrings, path \in RequestPathStrings :
             AuthPathMatchesCall(cpath, path)

SpecCred == InitCred /\ [][NextCred]_vars

InitLock ==
    /\ NewCounter(1)
    /\ NewAuth
    /\ NewSpools(-1)
    /\ NewDup
    /\ NewAuthDo(<<>>)
    /\ NewDo
    /\ NewCred
    /\ \E impl \in SessionCopies : NewLock(impl)
    /\ NewDigest
    /\ NewParse
    /\ NewLex(<<>>)
    /\ NewBuild

NextLock ==
    \/ \E t \in Threads, op \in Setters \cup Getters : SessCall(t, op)
    \/ \E t \in Threads : SessAcquire(t)
    \/ \E t \in Threads : SessWriteBegin(t)
    \/ \E t \in Threads : SessWriteEnd(t)
    \/ \E t \in Threads : SessRead(t)
    \/ \E t \in Threads : SessRelease(t)

SpecLock == InitLock /\ [][NextLock]_vars

InitDigest ==
    /\ NewCounter(1)
    /\ NewAuth
    /\ NewSpools(-1)
    /\ NewDup
    /\ NewAuthDo(<<>>)
    /\ NewDo
    /\ NewCred
    /\ NewLock("part_000")
    /\ NewDigest
    /\ NewParse
    /\ NewLex(<<>>)
    /\ NewBuild

NextDigest ==
    \/ \E host \in Hosts, domain \in SeqsUpTo(DigestRefs, MaxDigestDomain), hash \in Hashes :
            SetDigestCredentialsCall(host, domain, hash)
    \/ \E host \in Hosts : DigestCredentialsCall(host)

SpecDigest == InitDigest /\ [][NextDigest]_vars

InitParse ==
    /\ NewCounter(1)
    /\ NewAuth
    /\ NewSpools(-1)
    /\ NewDup
    /\ NewAuthDo(<<>>)
    /\ NewDo
    /\ NewCred
    /\ NewLock("part_000")
    /\ NewDigest
    /\ NewParse
    /\ NewLex(<<>>)
    /\ NewBuild

NextParse == \E item \in ParseItems : ParseNext(item)

SpecParse == InitParse /\ [][NextParse]_vars

InitLex ==
    /\ NewCounter(1)
    /\ NewAuth
    /\ NewSpools(-1)
    /\ NewDup
    /\ NewAuthDo(<<>>)
    /\ NewDo
    /\ NewCred
    /\ NewLock("part_000")
    /\ NewDigest
    /\ NewParse
    /\ \E header \in Headers : NewLex(header)
    /\ NewBuild

NextLex ==
    \/ LexStart
    \/ LexLoop
    \/ ParseLexItem

SpecLex == InitLex /\ [][NextLex]_vars

InitBuild ==
    /\ NewCounter(1)
    /\ NewAuth
    /\ NewSpools(-1)
    /\ NewDup
    /\ \E v \in BuildStores : NewAuthDo(v)
    /\ NewDo
    /\ NewCred
    /\ NewLock("part_000")
    /\ NewDigest
    /\ NewParse
    /\ NewLex(<<>>)
    /\ NewBuild

NextBuild ==
    \E ch \in BuildChallenges, path \in BuildPaths, randFails \in BOOLEAN :
        DigestCall(ch, "h1", path, randFails)

SpecBuild == InitBuild /\ [][NextBuild]_vars

\* ---------------------------------------------------------------- claims

\* C1: for every nonce, while it is not evicted, the k-th call of
\* NonceCounter.Next / session.Counter returns k (1, 2, 3, ...), whatever
\* calls are made for other nonces in between.
C1_CounterContiguous ==
    /\ \A i \in DOMAIN issueLog : issueLog[i].n = issueLog[i].k
    /\ \A t \in Threads :
        cpc[t] = "idle" /\ cret[t] /= <<>> =>
            \E i \in DOMAIN issueLog :
                issueLog[i].thread = t /\ cret[t] = Sprintf08x(issueLog[i].k)

\* C2: calls of session.Counter for one nonce, not evicted in between, never
\* return the same value, and the values increase in the order in which the
\* calls acquired the session lock.
C2_CounterDistinctIncreasing ==
    \A i, j \in DOMAIN issueLog :
        (/\ i < j
         /\ issueLog[i].nonce = issueLog[j].nonce
         /\ issueLog[i].epoch = issueLog[j].epoch)
        => issueLog[i].n < issueLog[j].n

\* the cached entries of the host of the last Get that match its path
MatchingEntries ==
    {i \in DOMAIN Domain[getRes.host] :
        /\ ~MatchesPanics(Domain[getRes.host][i], getRes.path)
        /\ Matches(Domain[getRes.host][i], getRes.path)}

\* C3: the cache is last-writer-wins per (host, path): when the exact path of
\* a Get was set before (and no other cached path matches it), Get returns the
\* header of the most recent Set for that host and path.
C3_LastWriterWins ==
    (/\ getRes.done
     /\ ~getRes.panic
     /\ getRes.path \in DOMAIN lastSet[getRes.host]
     /\ Cardinality(MatchingEntries) = 1)
    => getRes.auth = lastSet[getRes.host][getRes.path]

\* C4: Get returns the header of the deepest matching prefix entry: of the
\* longest cached path of the host that path-matches the request path.
C4_DeepestPrefix ==
    (/\ getRes.done
     /\ ~getRes.panic
     /\ MatchingEntries /= {})
    => LET paths == Domain[getRes.host]
           longest == CHOOSE i \in MatchingEntries :
                          \A j \in MatchingEntries : Len(paths[j].Path) =< Len(paths[i].Path)
       IN getRes.auth = paths[longest].Auth

\* C5: after an AuthDo for a URL without cached authorization got a 401 with
\* a Basic challenge, found a matching credential and saw its retry answered
\* with a status other than 401, the next AuthDo for the same URL sends its
\* first request with the Authorization header set from the session cache.
C5_NextAuthDoPreset ==
    (ad.seededBefore /\ Len(ad.sent) >= 1) => ad.sent[1] /= <<>>

\* the ReadCloser() call of spool i returned a reader and no error
ReaderOK(i) ==
    /\ clone[i].live
    /\ prc[i].fh.name /= 0 => clone[i].fhName /= 0

LinkedFiles == {f \in DOMAIN files : files[f].linked}

\* C6: after Writes, Close and one ReadCloser (no Write after it), reading the
\* returned reader to EOF yields exactly the concatenation of the bytes the
\* Writes reported as written, with the same length, in memory or spilled.
C6_SpoolRoundTrip ==
    \A i \in Spools :
        (eof[i] /\ ~lateWrite[i] /\ ReaderOK(i))
        => (got[i] = written[i] /\ Len(got[i]) = Len(written[i]))

C6_Witness ==
    /\ eof[1] /\ ~lateWrite[1] /\ ReaderOK(1)
    /\ clone[1].fhName /= 0
    /\ Len(written[1]) = MaxTotal
    /\ got[1] = written[1]

C8_AtMostOneReader ==
    res.op = "ReadCloser" =>
        IF rcCalls[res.i] = 1 THEN ~res.rcNil ELSE (res.rcNil /\ res.err)

C8_Witness ==
    /\ res.op = "ReadCloser"
    /\ rcCalls[1] = 2
    /\ res.rcNil /\ res.err

\* C9: a spool has at most one temporary file at any time; once the reader
\* of a spilled spool is closed no temporary file of the spool exists; closing
\* a memory-backed reader succeeds and touches no file.
C9_TempFileReleased ==
    /\ Cardinality(LinkedFiles) =< 1
    /\ \A i \in Spools :
        (clone[i].live /\ clone[i].fhName /= 0 /\ ~clone[i].fhOpen) => LinkedFiles = {}
    /\ (res.op = "ReaderClose" /\ clone[res.i].fhName = 0) => (~res.err /\ ~res.touched)

C9_Witness ==
    /\ res.op = "ReaderClose" /\ ~res.err /\ res.touched
    /\ clone[1].fhName /= 0 /\ ~clone[1].fhOpen
    /\ files /= <<>> /\ LinkedFiles = {}

\* C10: when Duplicate(rc, n) succeeds it returns n readers, each of which
\* yields exactly the bytes of rc however the reads of the others interleave;
\* and rc is closed when Duplicate has returned, with or without an error.
C10_DuplicateClones ==
    /\ (dup.pc = "done" /\ ~dup.err) =>
          (/\ ~dup.cloneNil
           /\ \A i \in 1..dup.n :
                /\ clone[i].live
                /\ eof[i] => got[i] = Chunk(0, src.len))
    /\ dup.pc = "done" => src.closed

C10_Witness ==
    /\ dup.pc = "done" /\ ~dup.err /\ dup.n = 2
    /\ src.len = MaxTotal /\ src.closed
    /\ eof[1] /\ eof[2]
    /\ got[1] = Chunk(0, MaxTotal) /\ got[2] = Chunk(0, MaxTotal)
    /\ clone[1].fhName /= 0 /\ clone[2].fhName /= 0 /\ clone[1].fhName /= clone[2].fhName

\* C11: in the challenge loop of AuthDo, a builder error NoCredentials with
\* more challenges remaining makes the driver go on to the next challenge
\* (without sending); NoCredentials on the last challenge, and every other
\* builder error on any challenge, ends AuthDo with that error: no further
\* challenge is tried and no request is sent.
C11_ContinueOnlyOnNoCredentials ==
    \A k \in DOMAIN ad.built :
        LET b == ad.built[k]
        IN b.err /= "" =>
            IF b.err = NoCredentialsErr /\ b.i < Len(ad.chs)
            THEN \/ k = Len(ad.built) /\ ad.pc = "challenge" /\ ad.i = b.i + 1
                 \/ /\ k < Len(ad.built)
                    /\ ad.built[k + 1].i = b.i + 1
                    /\ ad.built[k + 1].sends = b.sends
            ELSE /\ k = Len(ad.built)
                 /\ ad.pc = "done"
                 /\ ad.err = b.err
                 /\ Len(ad.sent) = b.sends

C11_Witness ==
    /\ ad.pc = "done"
    /\ Len(ad.chs) = 2
    /\ Len(ad.built) = 2
    /\ ad.built[1].err = NoCredentialsErr
    /\ ad.built[2].err = UnrecognizedScheme
    /\ ad.err = UnrecognizedScheme
    /\ Len(ad.sent) = 1

C13_TimeoutReturnsImmediately ==
    \A k \in DOMAIN ad.outcomes :
        ad.outcomes[k].err =>
            /\ k = Len(ad.outcomes)
            /\ Len(ad.built) = ad.outcomes[k].built
            /\ ad.pc = "done"
            /\ ad.err = "transport"

C15_LoginFirstMatch ==
    cr.op = "Login" =>
        LET hits == {i \in DOMAIN cr.store : CredentialMatches(cr.store[i], cr.host, cr.b)}
        IN IF hits = {}
           THEN cr.login.err = NoCredentialsErr
           ELSE LET first == CHOOSE i \in hits : \A j \in hits : i =< j
                IN /\ cr.login.err = ""
                   /\ cr.login.username = cr.store[first].Username
                   /\ cr.login.password = cr.store[first].Password

C15_Witness ==
    /\ cr.op = "Login"
    /\ Len(cr.store) = 3
    /\ ~CredentialMatches(cr.store[1], cr.host, cr.b)
    /\ CredentialMatches(cr.store[2], cr.host, cr.b)
    /\ CredentialMatches(cr.store[3], cr.host, cr.b)
    /\ cr.login.username = cr.store[2].Username
    /\ cr.realm = "Login"

\* C16: domainMatch(host) holds exactly when the credential domain is empty,
\* or equals the lower-cased host, or has at least one dot and the lower-cased
\* host ends with "." followed by the domain, or starts with "." and the
\* lower-cased host ends with it; and the call never fails.
C16_DomainMatchRule ==
    cr.op = "domainMatch" =>
        LET d == ToLower(cr.a)
            h == ToLower(cr.b)
            EndsWith(x, y) == Len(y) =< Len(x) /\ \A i \in 1..Len(y) : x[Len(x) - Len(y) + i] = y[i]
        IN /\ ~cr.panic
           /\ cr.res <=>
                \/ d = <<>>
                \/ d = h
                \/ (\E i \in DOMAIN d : d[i] = ".") /\ EndsWith(h, <<".">> \o d)
                \/ d /= <<>> /\ d[1] = "." /\ EndsWith(h, d)

C16_Witness ==
    /\ cr.op = "domainMatch"
    /\ cr.a = <<".", "a">>
    /\ cr.b = <<"A", ".", "a">>
    /\ cr.res

C19_LockDiscipline ==
    /\ \A t \in Threads :
        /\ (sess[t].op \in Setters /\ sess[t].pc \in {"body", "modifying", "release"})
            => (rw.writer = t /\ rw.readers = {})
        /\ (sess[t].op \in Getters /\ sess[t].pc \in {"body", "release"})
            => (t \in rw.readers /\ rw.writer = 0)
        /\ ~sess[t].saw
    /\ \A x \in Stores : dirty[x] =< 1

\* the keys the claim names: "host:path" of every domain entry resolved
\* against the request's URL, or "host:/" alone for an empty domain
C20_NamedKeys ==
    IF Len(dc.domain) = 0 THEN {<<dc.host, ":", "/">>}
    ELSE {SpaceKey(ResolveReference(dc.host, dc.domain[i])) :
            i \in {j \in 1..Len(dc.domain) : ~dc.domain[j].bad}}

\* C20: SetDigestCredentials(uri, domain, hash) stores the hash under
\* exactly the keys "host:path" of the resolved domain entries ("host:/" for
\* an empty domain) and leaves every other key of the map as it was.
C20_ExactKeys ==
    dc.op = "Set" =>
        md5cred = [k \in (DOMAIN dc.before) \cup C20_NamedKeys |->
                      IF k \in C20_NamedKeys THEN dc.hash ELSE dc.before[k]]

\* positions in fed of the scheme items, and the stretch of items that
\* follows the scheme item at position p up to the next scheme item
C21_SchemePositions == {i \in 1..Len(fed) : fed[i].type \in {ItemBasic, ItemDigest}}
C21_Stretch(p) ==
    {i \in 1..Len(fed) : i > p /\ \A q \in C21_SchemePositions : q > p => i < q}
C21_Rank(p) == Cardinality({q \in C21_SchemePositions : q =< p})
C21_LastOf(p, type) ==
    LET idx == {i \in C21_Stretch(p) : fed[i].type = type}
    IN IF idx = {} THEN 0 ELSE CHOOSE i \in idx : \A j \in idx : j =< i

\* C21: parseChallenge yields one Challenge per Basic/Digest item, in stream
\* order; every field of a challenge is the value of the last item of that
\* kind that arrived after the challenge's scheme item and before the next
\* scheme item (the zero value if there was none), so parameter items before
\* any scheme item and auth-param items leave no trace; it stops at the first
\* error item and returns what it has built together with an error.
C21_ParseByStream ==
    /\ Len(parse.parsed) = Cardinality(C21_SchemePositions)
    /\ \A p \in C21_SchemePositions :
        LET c == parse.parsed[C21_Rank(p)]
            Val(type, zero) ==
                IF C21_LastOf(p, type) = 0 THEN zero ELSE fed[C21_LastOf(p, type)].value
        IN /\ c.Scheme = fed[p].value
           /\ c.Realm = (IF Val(ItemRealm, <<>>) = <<>> THEN <<>>
                         ELSE SubSeq(Val(ItemRealm, <<>>), 2, Len(Val(ItemRealm, <<>>)) - 1))
           /\ c.Nonce = (IF Val(ItemNonce, <<>>) = <<>> THEN <<>> ELSE <<"r">>)
           /\ c.Opaque = (IF Val(ItemOpaque, <<>>) = <<>> THEN <<>> ELSE <<"r">>)
           /\ c.Domain = (IF Val(ItemDomain, <<>>) = <<>> THEN <<>>
                          ELSE << <<"/", "a">>, <<"/", "b">> >>)
           /\ c.Qop = (IF Val(ItemQop, <<>>) = <<>> THEN <<>> ELSE << <<"a">>, <<"b">> >>)
           /\ c.Algorithm = Val(ItemAlgorithm, <<>>)
           /\ c.Stale = (Val(ItemStale, <<>>) = StrTrue)
    /\ \A i \in 1..Len(fed) :
        fed[i].type \in {ItemError, ItemEOF, ItemIgnore} => (i = Len(fed) /\ parse.done)
    /\ (parse.err /= "") <=>
            (fed /= <<>> /\ fed[Len(fed)].type \in {ItemError, ItemIgnore})

C21_Witness ==
    /\ Len(fed) = 4
    /\ fed[1].type = ItemRealm
    /\ fed[2].type = ItemBasic
    /\ fed[3].type = ItemRealm
    /\ fed[4].type = ItemError
    /\ Len(parse.parsed) = 1
    /\ parse.parsed[1].Realm = <<"r">>
    /\ parse.err /= ""

\* C22: a stale value that is "true" in any letter case is parsed into
\* Stale = true, and "false" in any letter case into Stale = false.
C22_StaleAnyCase ==
    \A p \in C21_SchemePositions :
        C21_LastOf(p, ItemStale) /= 0 =>
            (parse.parsed[C21_Rank(p)].Stale
                <=> (ToLower(fed[C21_LastOf(p, ItemStale)].value) = StrTrue))

\* C23: the scheme loop of emitWWWAuthenticate makes progress on every
\* pass, so the lexer run reaches EOF or an error and stops.
C23_LexerTerminates == ~lex.looping

\* the qop the builder must select: auth-int if offered, else auth if
\* offered, else none
C24_Selected ==
    LET options == {bd.ch.Qop[i] : i \in DOMAIN bd.ch.Qop}
    IN IF "auth-int" \in options THEN "auth-int"
       ELSE IF "auth" \in options THEN "auth" ELSE ""

\* what one NonceCounter.Next call for the challenge's nonce gives on the
\* counter as it was before the build
C24_Counted == NonceCounterNext(bd.before.m, bd.before.ll, bd.before.cap, bd.ch.Nonce)

\* C24: a header that Challenge.Digest returns has the fields username,
\* realm, nonce, uri, then qop, nc, cnonce exactly when a qop was selected,
\* then algorithm exactly when the challenge names one, then response, then
\* opaque exactly when the challenge has one; nc is the value the nonce
\* counter gives for the challenge's nonce, as eight hexadecimal digits, the
\* counter is advanced once for it, and a call that selects no qop leaves the
\* nonce counter as it was.
C24_FieldOrder ==
    (bd.n > 0) =>
        /\ (bd.ret.err = "") =>
            /\ [i \in DOMAIN bd.ret.auth |-> bd.ret.auth[i].name]
                 = <<"username", "realm", "nonce", "uri">>
                   \o (IF C24_Selected /= "" THEN <<"qop", "nc", "cnonce">> ELSE <<>>)
                   \o (IF bd.ch.Algorithm /= "" THEN <<"algorithm">> ELSE <<>>)
                   \o <<"response">>
                   \o (IF bd.ch.Opaque /= "" THEN <<"opaque">> ELSE <<>>)
            /\ (C24_Selected /= "") =>
                /\ bd.ret.auth[5].value = C24_Selected
                /\ Len(bd.ret.auth[6].value) = 8
                /\ bd.ret.auth[6].value = Sprintf08x(C24_Counted.ret)
                /\ ncM = C24_Counted.m /\ ncLL = C24_Counted.ll
            /\ bd.ret.auth[3].value = bd.ch.Nonce
        /\ (C24_Selected = "") => (ncM = bd.before.m /\ ncLL = bd.before.ll)

C24_Witness ==
    /\ bd.n = 2
    /\ bd.ret.err = ""
    /\ bd.ch.Qop = <<"auth-int", "auth">>
    /\ bd.ch.Algorithm = "MD5-sess"
    /\ bd.ch.Opaque = "o"
    /\ Len(bd.ret.auth) = 10
    /\ bd.before.ll /= <<>>

\* C30: the H(A1) value a successful Challenge.Digest call used is
\* MD5(user ":" realm ":" pass) for the user and password Login returns for
\* the request's URI and for the realm of the challenge answered, whether
\* computed or taken from the session's cache.
C30_HA1OfThisLogin ==
    (bd.n > 0 /\ bd.ret.err = "") =>
        LET l == Login(creds, bd.host, bd.path, 1)
        IN bd.ret.ha1 = MD5(<<l.username, ":", bd.ch.Realm, ":", l.password>>)

\* C25: when AuthDo has returned, by whatever exit, every reader it obtained
\* from Session.Duplicate (for the first send and for each retry) is closed
C25_ClonesClosed == ad.pc = "done" => ad.obtained \subseteq ad.closed

\* a call that duplicated the body for the first send and again for a retry
\* and returned the retry's response
C25_Witness ==
    /\ ad.pc = "done"
    /\ Cardinality(ad.obtained) = 4
    /\ ad.err = ""
    /\ ad.status = StatusOK
    /\ Len(ad.sent) = 2

\* the keys of the recency list, front first
TrackedOrder == [i \in DOMAIN ncLL |-> ncLL[i].k]

\* C26: the number of tracked nonces never exceeds the capacity, which is
\* at least 1 whatever capacity was asked for, and the index map and the
\* recency list hold exactly the same nonces, each once
C26_BoundedAndConsistent ==
    /\ ncCap >= 1
    /\ Cardinality(ncM) =< ncCap
    /\ ncM = {TrackedOrder[i] : i \in DOMAIN TrackedOrder}
    /\ Len(ncLL) = Cardinality(ncM)

\* a full counter of capacity 1 after calls for two different nonces
C26_Witness ==
    /\ ncCap = 1
    /\ Cardinality(ncM) = 1
    /\ \E i, j \in DOMAIN issueLog : issueLog[i].nonce /= issueLog[j].nonce

\* s without the entries equal to x
RECURSIVE C27_Without(_, _)
C27_Without(s, x) ==
    IF s = <<>> THEN <<>>
    ELSE IF Head(s) = x THEN C27_Without(Tail(s), x)
    ELSE <<Head(s)>> \o C27_Without(Tail(s), x)

\* the nonces of the first n calls of the log, the most recently used first
RECURSIVE C27_Recency(_)
C27_Recency(n) ==
    IF n = 0 THEN <<>>
    ELSE <<issueLog[n].nonce>> \o C27_Without(C27_Recency(n - 1), issueLog[n].nonce)

\* the capacity-many most recently used nonces after the first n calls
C27_MostRecent(n) ==
    LET r == C27_Recency(n)
    IN SubSeq(r, 1, IF Len(r) < ncCap THEN Len(r) ELSE ncCap)

\* C27: least-recently-used eviction. After every call the tracked nonces
\* are the capacity-many most recently used ones, in that order (so a miss at
\* capacity evicts exactly the nonce whose last call is the oldest, a hit
\* moves its nonce to the front and evicts nothing, and with capacity 1 every
\* new nonce evicts the prior one), and a call for a nonce that is not
\* tracked, evicted ones included, returns 1
C27_LRU ==
    /\ TrackedOrder = C27_MostRecent(Len(issueLog))
    /\ \A n \in DOMAIN issueLog :
          LET before == C27_MostRecent(n - 1)
          IN issueLog[n].nonce \notin {before[i] : i \in DOMAIN before}
             => issueLog[n].n = 1

\* capacity 2: a hit on the older nonce, then a new nonce evicts the other
\* one; and a nonce that was evicted is seen again
C27_Witness ==
    /\ ncCap = 2
    /\ Len(issueLog) = 4
    /\ issueLog[1].nonce = issueLog[3].nonce
    /\ issueLog[2].nonce /= issueLog[1].nonce
    /\ issueLog[4].nonce \notin {issueLog[1].nonce, issueLog[2].nonce}
    /\ issueLog[2].nonce \notin ncM

\* a nonce that was evicted and is tracked again from 1
C27_WitnessRestart ==
    \E n \in DOMAIN issueLog : issueLog[n].epoch = 2 /\ issueLog[n].n = 1

\* the order the path lists are to be in: "/" after every other path, else
\* the path with more "/" first, else the bytewise smaller path first
C28_Before(x, y) ==
    IF x = <<"/">> \/ y = <<"/">>
    THEN y = <<"/">> /\ x /= <<"/">>
    ELSE \/ Count(x, "/") > Count(y, "/")
         \/ Count(x, "/") = Count(y, "/") /\ StrLess(x, y)

\* C28: whatever Set calls were made, every host's path list is strictly
\* ascending in that order: sorted, and no path occurs twice
C28_SortedNoDuplicates ==
    \A h \in Hosts :
        \A i, j \in DOMAIN Domain[h] :
            i < j => C28_Before(Domain[h][i].Path, Domain[h][j].Path)

\* a host with MaxEntries cached paths, one of them "/", after a Set for a
\* path that was already cached with another value
C28_Witness ==
    \E h \in Hosts :
        /\ Len(Domain[h]) = MaxEntries
        /\ \E i \in DOMAIN Domain[h] : Domain[h][i].Path = <<"/">>
        /\ \E p \in DOMAIN lastSet[h] :
              \E i \in DOMAIN Domain[h] :
                  Domain[h][i].Path = p /\ Domain[h][i].Auth /= lastSet[h][p]

\* the step in which a retry returns without error and with a status other
\* than 401, having carried the header the builder just produced for the
\* current challenge
C29_GoodRetry ==
    /\ ad.pc = "send2"
    /\ ad'.pc = "done"
    /\ ad'.err = ""
    /\ ad'.status /= StatusUnauthorized
    /\ ad.auth /= NoAuth
    /\ ad.built[Len(ad.built)] = [i |-> ad.i, err |-> "", sends |-> Len(ad.sent)]
    /\ ad'.sent = Append(ad.sent, ad.hdr)
    /\ ad.hdr[Len(ad.hdr)] = ad.auth

\* C29: the authorization cache changes only in such a step, and such a step
\* stores exactly what SetAuthorization does with the request's host, the
\* current challenge's domain list and that header; every other step of
\* AuthDo, the other exits included, leaves the cache as it was
C29_SetOnlyAfterGoodRetry ==
    [][/\ Domain' /= Domain => C29_GoodRetry
       /\ C29_GoodRetry =>
             Domain' = SetAuthorization(Domain, ad.host, ad.chs[ad.i].Domain, ad.auth)
       /\ ad'.pc = "done" /\ ~C29_GoodRetry => Domain' = Domain]_vars

\* a call that got a 401 with a domain list, retried with the built header,
\* got a 200 and has the header cached for the domain's path
C29_Witness ==
    /\ ad.pc = "done"
    /\ ad.err = ""
    /\ ad.status = StatusOK
    /\ Len(ad.sent) = 2
    /\ ~ad.cached
    /\ ad.chs[ad.i].Domain = <<RefA>>
    /\ \E k \in DOMAIN Domain[ad.host] :
          Domain[ad.host][k] = [Path |-> RefA.path, Auth |-> ad.auth]

\* C40: every challenge parsed from a scheme token that the lexer took for
\* Basic or Digest has a Scheme that Challenge.Authorization accepts.
C40_ParsedSchemeAccepted ==
    \A i \in DOMAIN parse.parsed : AcceptsScheme(parse.parsed[i].Scheme)

\* C33: every request AuthDo hands to the transport carries at most one
\* Authorization header value.
C33_OneAuthorizationValue ==
    \A k \in DOMAIN ad.sent : Len(ad.sent[k]) =< 1

\* C34: every Digest Authorization value AuthDo sends, built or cached, has
\* as its uri field the request URI of the request it is sent with.
C34_DigestUriOfRequest ==
    \A k \in DOMAIN ad.sent :
        \A j \in DOMAIN ad.sent[k] :
            LET h == ad.sent[k][j]
            IN h[1] = "Digest" => SubSeq(h, 4, Len(h)) = RequestURI(ad.path)

\* C39: a Challenge.Digest call that returns an error leaves the session as
\* it was: nonce counter, H(A1) cache and session-hash cache.
C39_ErrorLeavesSession ==
    (bd.n > 0 /\ bd.ret.err /= "") => TheSession = bd.before

\* C35: for MD5-sess the secret of the response is
\* MD5(H(A1) ":" nonce ":" cnonce) for the nonce of the challenge answered and
\* the cnonce of the same Authorization header.
C35_SessionKeyOfThisChallenge ==
    (bd.n > 0 /\ bd.ret.err = "" /\ bd.ch.Algorithm = "MD5-sess") =>
        /\ bd.ret.secret = MD5(<<bd.ret.ha1, ":", bd.ch.Nonce, ":", bd.ret.cnonce>>)
        /\ \A i \in DOMAIN bd.ret.auth :
              bd.ret.auth[i].name = "cnonce" => bd.ret.auth[i].value = bd.ret.cnonce

\* C38: when Duplicate has returned an error, no temporary file of its
\* spools remains, every spool that opened a file has closed it, and the
\* cleanup did not panic.
C38_DuplicateErrorCleansUp ==
    (dup.pc = "done" /\ dup.err) =>
        /\ LinkedFiles = {}
        /\ \A i \in 1..dup.n : prc[i].fh.name /= 0 => ~prc[i].fh.open
        /\ ~dup.panic

\* C37: once Client.Do has returned, the goroutine that performs the
\* transport call eventually terminates, also after a timeout.
C37_WorkerTerminates == (do.pc = "returned") ~> (do.g = "done")

\* C36: Session.Authorization(uri) returns (a header or the empty string)
\* for every URI and every cache state that SetAuthorization calls can
\* produce: AuthPath.Matches never indexes outside a path.
C36_AuthorizationCompletes == ~getRes.panic

\* C31: when a request with a body is re-sent with a header built for qop
\* auth-int, the body hash in that header is the hash of the complete
\* original body, and the complete body is what is sent with it.
C31_HashOfSentBody ==
    \A k \in DOMAIN ad.sentBody :
        (ad.sentBody[k].has /\ ad.sentBody[k].hashed /= "") =>
            (ad.sentBody[k].hashed = "body" /\ ad.sentBody[k].whole)

\* C32: every request with a body that AuthDo sends again after a 401
\* carries a reader that delivers the complete original body.
C32_RetryCarriesWholeBody ==
    \A k \in 2..Len(ad.sentBody) :
        ad.sentBody[k].has => ad.sentBody[k].whole

====
